---------------------------- MODULE Spec2Model ----------------------------
(***************************************************************************)
(* A model of the rate-resolution, identity-resolution and time-entry      *)
(* aggregation logic of freshbooks-tools:                                  *)
(*   src/src/freshbooks_tools/config.py     RatesConfig                    *)
(*   src/src/freshbooks_tools/api/client.py FreshBooksClient               *)
(*   src/src/freshbooks_tools/api/team.py   TeamAPI                        *)
(*   src/src/freshbooks_tools/api/rates.py  RatesAPI                       *)
(*   src/src/freshbooks_tools/cli.py        time summary                   *)
(*                                                                         *)
(* Conventions.                                                            *)
(*  - Optional[T] is a sequence of length 0 (None) or 1 (a value).         *)
(*  - A str is a sequence of one-character strings.                        *)
(*  - A Decimal rate is an integer number of currency units; hours are     *)
(*    kept in quarter hours, so amounts are integers in quarter units.     *)
(*  - A Python dict whose iteration order the code relies on is a sequence *)
(*    of [k, v] entries with distinct keys, in insertion order; the other  *)
(*    dicts are functions.                                                 *)
(*  - Every API method is an operator from the object state s (the         *)
(*    instance attributes of the client, TeamAPI and RatesAPI, plus the    *)
(*    log of requests sent) to a result [s, ok, val]: the state after the  *)
(*    call, whether it returned (ok) or raised, and the returned value.    *)
(*    `down` is the set of endpoints whose request fails during the call.  *)
(***************************************************************************)
EXTENDS Integers, Sequences, FiniteSets, TLC

VARIABLES
    cfg,      \* config.rates: the RatesConfig, read-only during a run
    remote,   \* what the FreshBooks service holds, fixed during a run
    api,      \* attributes of FreshBooksClient, TeamAPI and RatesAPI
    last,     \* the last call made: operation, arguments, outcome, requests
              \* sent, endpoints whose cached answer it dropped
    prev,     \* the call before it and its outcome
    faults    \* how many more requests of this run may fail

vars == <<cfg, remote, api, last, prev, faults>>

---------------------------------------------------------------------------
(* Bounds of the model *)

\* at most this many requests fail during one run
MaxFaults == 1
\* at most this many time entries in the month summarised
MaxEntries == 3
\* balances of 0..MaxBalance and revenues up to MaxRevenue, in whole units
MaxBalance == 12
MaxRevenue == 40
\* at most this many tokens are issued during one run
MaxIssued == 4
\* the time entries the service holds and the page size list_all asks for
\* (100 in the source)
MaxRecords == 5
PerPage == 2

---------------------------------------------------------------------------
(* Python values *)

None == <<>>
Some(v) == <<v>>
IsNone(o) == Len(o) = 0
Val(o) == o[1]

\* "x > 0" on an Optional[Decimal] that is not None
Positive(o) == Len(o) = 1 /\ o[1] > 0

\* truth value of an Optional[Decimal]: "if rate:" is false for None and for 0
TruthyRate(o) == Len(o) = 1 /\ o[1] # 0

\* truth value of an Optional[str]: false for None and for ""
TruthyStr(o) == Len(o) = 1 /\ Len(o[1]) > 0

\* str(identity_id) for the one-digit identities of the model
Digits == <<"1", "2", "3", "4", "5", "6", "7", "8", "9">>
Str(n) == << Digits[n] >>

\* a JSON "rate" field: absent (None), or a number or a string holding n.
\* In "if rate:" a number 0 is false and a string such as "0.00" is true;
\* Decimal(str(rate)) is n in both cases.
JNum(n) == << [str |-> FALSE, n |-> n] >>
JStr(n) == << [str |-> TRUE, n |-> n] >>
TruthyJson(j) == Len(j) = 1 /\ (j[1].str \/ j[1].n # 0)
DecimalOf(j) == j[1].n

---------------------------------------------------------------------------
(* Insertion-ordered dict *)

DictKeys(d) == {d[i].k : i \in 1..Len(d)}
DictHas(d, key) == \E i \in 1..Len(d) : d[i].k = key
DictGet(d, key) == d[CHOOSE i \in 1..Len(d) : d[i].k = key].v
\* d[key] = v: an existing key keeps its position, a new key goes last
DictSet(d, key, v) ==
    IF DictHas(d, key)
    THEN [i \in 1..Len(d) |-> IF d[i].k = key THEN [k |-> key, v |-> v] ELSE d[i]]
    ELSE Append(d, [k |-> key, v |-> v])

---------------------------------------------------------------------------
(* config.py: RatesConfig *)

RatesConfig_get_cost_rate(email) ==
    IF email \in DOMAIN cfg.cost_rates
    THEN Some(cfg.cost_rates[email])
    ELSE cfg.default_cost_rate

RatesConfig_get_cost_rate_by_id(identity_id) ==
    IF identity_id \in DOMAIN cfg.members
    THEN cfg.members[identity_id].cost_rate
    ELSE IF Str(identity_id) \in DOMAIN cfg.cost_rates
         THEN Some(cfg.cost_rates[Str(identity_id)])
         ELSE cfg.default_cost_rate

RatesConfig_get_billable_rate(email) ==
    IF email \in DOMAIN cfg.billable_rates
    THEN Some(cfg.billable_rates[email])
    ELSE cfg.default_billable_rate

RatesConfig_get_billable_rate_by_id(identity_id) ==
    IF identity_id \in DOMAIN cfg.members
    THEN cfg.members[identity_id].billable_rate
    ELSE IF Str(identity_id) \in DOMAIN cfg.billable_rates
         THEN Some(cfg.billable_rates[Str(identity_id)])
         ELSE None

---------------------------------------------------------------------------
(* Strings *)

Space == " "
NoneText == <<"N", "o", "n", "e">>
UnknownText == <<"U", "n", "k", "n", "o", "w", "n">>

\* str.lower() on the alphabet of the model
LowerChar(c) ==
    CASE c = "A" -> "a"
      [] c = "B" -> "b"
      [] c = "N" -> "n"
      [] c = "U" -> "u"
      [] OTHER -> c
Lower(str) == [i \in 1..Len(str) |-> LowerChar(str[i])]

\* str.strip()
RECURSIVE LStrip(_)
LStrip(str) ==
    IF Len(str) > 0 /\ Head(str) = Space THEN LStrip(Tail(str)) ELSE str
RECURSIVE RStrip(_)
RStrip(str) ==
    IF Len(str) > 0 /\ str[Len(str)] = Space
    THEN RStrip(SubSeq(str, 1, Len(str) - 1))
    ELSE str
Strip(str) == RStrip(LStrip(str))

\* "needle in haystack" on strings
Contains(haystack, needle) ==
    \E i \in 0..(Len(haystack) - Len(needle)) :
        SubSeq(haystack, i + 1, i + Len(needle)) = needle

\* "x or ''" on an Optional[str]
OrEmpty(o) == IF TruthyStr(o) THEN Val(o) ELSE <<>>
\* f"{x}" on an Optional[str]: None is formatted as the text None
Format(o) == IF IsNone(o) THEN NoneText ELSE Val(o)

\* " ".join(p for p in parts if p)
RECURSIVE JoinTruthy(_)
JoinTruthy(parts) ==
    IF Len(parts) = 0 THEN <<>>
    ELSE LET rest == JoinTruthy(Tail(parts)) IN
         IF ~TruthyStr(Head(parts)) THEN rest
         ELSE IF Len(rest) = 0 THEN Val(Head(parts))
         ELSE Val(Head(parts)) \o <<Space>> \o rest

\* f"Unknown ({identity_id})"
UnknownName(identity_id) ==
    UnknownText \o <<Space, "(">> \o Str(identity_id) \o <<")">>

---------------------------------------------------------------------------
(* models/schemas.py *)

\* TeamMember.display_name
TeamMember_display_name(m) ==
    LET joined == JoinTruthy(<<m.first_name, m.middle_name, m.last_name>>) IN
    IF Len(joined) > 0 THEN joined
    ELSE IF TruthyStr(m.email) THEN Val(m.email)
    ELSE UnknownText

\* Staff.name
Staff_name(st) ==
    IF TruthyStr(st.display_name) THEN Val(st.display_name)
    ELSE LET n == Strip(OrEmpty(st.fname) \o <<Space>> \o OrEmpty(st.lname)) IN
         IF Len(n) > 0 THEN n
         ELSE IF TruthyStr(st.email) THEN Val(st.email)
         ELSE UnknownText

---------------------------------------------------------------------------
(* api/client.py: FreshBooksClient, as far as the resolvers use it *)

EpMe == <<"users/me", 0>>
EpTeam == <<"team_members", 0>>
EpStaff == <<"users/staffs", 0>>
EpProjects == <<"projects", 0>>
EpProject(project_id) == <<"projects", project_id>>
EpServices == <<"services", 0>>
EpServiceRate(service_id) == <<"service/rate", service_id>>
EpTeamRates == <<"team_member_rates", 0>>

Ret(s, v) == [s |-> s, ok |-> TRUE, val |-> v]
Raise(s) == [s |-> s, ok |-> FALSE, val |-> None]

\* "r = call(...); rest(r)": an exception raised by the call propagates, else
\* the statements after it run on its result
Bind(r, Rest(_)) == IF ~r.ok THEN r ELSE Rest(r)

\* FreshBooksClient.get: the request is sent (and logged); it raises when
\* the endpoint fails, else returns the endpoint's response
client_get(s, ep, down) ==
    IF ep \in down
    THEN Raise([s EXCEPT !.reqs = Append(@, ep)])
    ELSE Ret([s EXCEPT !.reqs = Append(@, ep)], ep)

\* FreshBooksClient.ensure_account_info, called by every url builder
ensure_account_info(s, down) ==
    IF s.account THEN Ret(s, TRUE)
    ELSE Bind(client_get(s, EpMe, down),
              LAMBDA r : Ret([r.s EXCEPT !.account = TRUE], TRUE))

---------------------------------------------------------------------------
(* api/team.py: TeamAPI *)

\* TeamAPI.list_team_members: the members of the response that parse
\* (a member without "uuid" raises KeyError and is skipped)
list_team_members(s, down) ==
    Bind(ensure_account_info(s, down), LAMBDA a :
    Bind(client_get(a.s, EpTeam, down), LAMBDA r :
    Ret(r.s, SelectSeq(remote.team_members, LAMBDA m : m.uuid))))

\* TeamAPI.list_staff: rate is Decimal(str(rate)) when the field is truthy
list_staff(s, down) ==
    Bind(ensure_account_info(s, down), LAMBDA a :
    Bind(client_get(a.s, EpStaff, down), LAMBDA r :
    Ret(r.s,
        [i \in 1..Len(remote.staffs) |->
            [remote.staffs[i] EXCEPT
                !.rate = IF TruthyJson(@) THEN Some(DecimalOf(@)) ELSE None]])))

\* the loop over one project's group members (team.py 75-85)
RECURSIVE AddProjectMembers(_, _)
AddProjectMembers(members_by_id, members) ==
    IF Len(members) = 0 THEN members_by_id
    ELSE AddProjectMembers(
             IF Head(members).identity_id # 0
                  /\ ~DictHas(members_by_id, Head(members).identity_id)
             THEN DictSet(members_by_id, Head(members).identity_id,
                          [first_name |-> Head(members).first_name,
                           last_name |-> Head(members).last_name,
                           email |-> Head(members).email])
             ELSE members_by_id,
             Tail(members))

\* mutant of MembersAfter: a failed detail request discards the members
\* collected so far
MembersAfter_FailureClears(members_by_id, project, r) ==
    IF r.ok THEN AddProjectMembers(members_by_id, project.members)
    ELSE <<>>

\* the members after one project's detail request r (team.py 68-87): a failed
\* request is swallowed
MembersAfter(members_by_id, project, r) ==
    IF r.ok THEN AddProjectMembers(members_by_id, project.members)
    ELSE members_by_id

\* the loop over the listed projects (team.py 63-87): a project without id
\* is skipped
RECURSIVE ProjectLoop(_, _, _, _)
ProjectLoop(s, members_by_id, projects, down) ==
    IF Len(projects) = 0 THEN [s |-> s, members_by_id |-> members_by_id]
    ELSE IF Head(projects).id = 0
    THEN ProjectLoop(s, members_by_id, Tail(projects), down)
    ELSE ProjectLoop(client_get(s, EpProject(Head(projects).id), down).s,
                     MembersAfter(members_by_id, Head(projects),
                                  client_get(s, EpProject(Head(projects).id), down)),
                     Tail(projects), down)

\* self._project_members_cache = members_by_id; return members_by_id
CacheProjectMembers(l) ==
    Ret([l.s EXCEPT !.project_members_cache = Some(l.members_by_id)],
        l.members_by_id)

\* TeamAPI.list_project_members
list_project_members(s, down) ==
    IF ~IsNone(s.project_members_cache)
    THEN Ret(s, Val(s.project_members_cache))
    ELSE Bind(ensure_account_info(s, down), LAMBDA a :
         Bind(client_get(a.s, EpProjects, down), LAMBDA r :
         CacheProjectMembers(ProjectLoop(r.s, <<>>, remote.projects, down))))

\* the loop of get_team_by_identity_id (team.py 130-132)
RECURSIVE IndexTeam(_, _)
IndexTeam(cache, members) ==
    IF Len(members) = 0 THEN cache
    ELSE IndexTeam(IF Head(members).identity_id # 0
                   THEN DictSet(cache, Head(members).identity_id, Head(members))
                   ELSE cache,
                   Tail(members))

\* self._team_cache = cache; return self._team_cache
CacheTeam(s, cache) == Ret([s EXCEPT !.team_cache = Some(cache)], cache)

\* TeamAPI.get_team_by_identity_id
get_team_by_identity_id(s, down) ==
    IF ~IsNone(s.team_cache) THEN Ret(s, Val(s.team_cache))
    ELSE Bind(list_team_members(s, down),
              LAMBDA r : CacheTeam(r.s, IndexTeam(<<>>, r.val)))

\* the loop of get_staff_by_id (team.py 144-145)
RECURSIVE IndexStaff(_, _)
IndexStaff(cache, staff_list) ==
    IF Len(staff_list) = 0 THEN cache
    ELSE IndexStaff(DictSet(cache, Head(staff_list).id, Head(staff_list)),
                    Tail(staff_list))

\* self._staff_cache = cache; return self._staff_cache
CacheStaff(s, cache) == Ret([s EXCEPT !.staff_cache = Some(cache)], cache)

\* TeamAPI.get_staff_by_id
get_staff_by_id(s, down) ==
    IF ~IsNone(s.staff_cache) THEN Ret(s, Val(s.staff_cache))
    ELSE Bind(list_staff(s, down),
              LAMBDA r : CacheStaff(r.s, IndexStaff(<<>>, r.val)))

\* the f-string of team.py 163 and 201, stripped
ProjectMemberFullName(m) ==
    Strip(Format(m.first_name) \o <<Space>> \o Format(m.last_name))

\* the name built from a project-group member (team.py 162-164)
ProjectMemberName(m, identity_id) ==
    IF Len(ProjectMemberFullName(m)) > 0 THEN ProjectMemberFullName(m)
    ELSE IF TruthyStr(m.email) THEN Val(m.email)
    ELSE UnknownName(identity_id)

\* TeamAPI.get_team_member_name
get_team_member_name(s, identity_id, down) ==
    Bind(get_team_by_identity_id(s, down), LAMBDA t :
    IF DictHas(t.val, identity_id)
    THEN Ret(t.s, TeamMember_display_name(DictGet(t.val, identity_id)))
    ELSE
    Bind(get_staff_by_id(t.s, down), LAMBDA st :
    IF DictHas(st.val, identity_id)
    THEN Ret(st.s, Staff_name(DictGet(st.val, identity_id)))
    ELSE
    Bind(list_project_members(st.s, down), LAMBDA pm :
    IF DictHas(pm.val, identity_id)
    THEN Ret(pm.s, ProjectMemberName(DictGet(pm.val, identity_id), identity_id))
    ELSE Ret(pm.s, UnknownName(identity_id)))))

\* mutant of get_team_member_email: the staff directory consulted before the
\* team-member directory
get_team_member_email_StaffFirst(s, identity_id, down) ==
    Bind(get_staff_by_id(s, down), LAMBDA st :
    IF DictHas(st.val, identity_id)
    THEN Ret(st.s, DictGet(st.val, identity_id).email)
    ELSE
    Bind(get_team_by_identity_id(st.s, down), LAMBDA t :
    IF DictHas(t.val, identity_id)
    THEN Ret(t.s, DictGet(t.val, identity_id).email)
    ELSE
    Bind(list_project_members(t.s, down), LAMBDA pm :
    IF DictHas(pm.val, identity_id)
    THEN Ret(pm.s, DictGet(pm.val, identity_id).email)
    ELSE Ret(pm.s, None))))

\* TeamAPI.get_team_member_email
get_team_member_email(s, identity_id, down) ==
    Bind(get_team_by_identity_id(s, down), LAMBDA t :
    IF DictHas(t.val, identity_id)
    THEN Ret(t.s, DictGet(t.val, identity_id).email)
    ELSE
    Bind(get_staff_by_id(t.s, down), LAMBDA st :
    IF DictHas(st.val, identity_id)
    THEN Ret(st.s, DictGet(st.val, identity_id).email)
    ELSE
    Bind(list_project_members(st.s, down), LAMBDA pm :
    IF DictHas(pm.val, identity_id)
    THEN Ret(pm.s, DictGet(pm.val, identity_id).email)
    ELSE Ret(pm.s, None))))

\* the three match tests of find_identity_by_name (team.py 191, 196, 201-205)
TeamMatches(member, name_lower) ==
    Contains(Lower(TeamMember_display_name(member)), name_lower)
StaffMatches(st, name_lower) ==
    Contains(Lower(Staff_name(st)), name_lower)
ProjectMemberMatches(m, name_lower) ==
    \/ Contains(Lower(ProjectMemberFullName(m)), name_lower)
    \/ TruthyStr(m.email) /\ Contains(Lower(Val(m.email)), name_lower)

\* "for key, value in d.items(): if test(value): return key", None when the
\* loop ends; Hit(v) is the test
FirstKey(d, Hit(_)) ==
    IF \E i \in 1..Len(d) : Hit(d[i].v)
    THEN Some(d[CHOOSE j \in 1..Len(d) :
                    Hit(d[j].v) /\ \A h \in 1..(j - 1) : ~Hit(d[h].v)].k)
    ELSE None

\* "return key" when the loop found one, else the statements after the loop
FoundOr(s, hit, otherwise) == IF ~IsNone(hit) THEN Ret(s, hit) ELSE otherwise

\* TeamAPI.find_identity_by_name
find_identity_by_name(s, name, down) ==
    Bind(get_team_by_identity_id(s, down), LAMBDA t :
    FoundOr(t.s, FirstKey(t.val, LAMBDA v : TeamMatches(v, Lower(name))),
    Bind(get_staff_by_id(t.s, down), LAMBDA st :
    FoundOr(st.s, FirstKey(st.val, LAMBDA v : StaffMatches(v, Lower(name))),
    Bind(list_project_members(st.s, down), LAMBDA pm :
    Ret(pm.s, FirstKey(pm.val,
                       LAMBDA v : ProjectMemberMatches(v, Lower(name)))))))))

\* the three loops of get_all_members (team.py 217-248); a record keeps the
\* fields the claims are about: the name, the email and the source tag
RECURSIVE MergeTeam(_, _)
MergeTeam(all_members, team) ==
    IF Len(team) = 0 THEN all_members
    ELSE MergeTeam(DictSet(all_members, Head(team).k,
                           [first_name |-> Head(team).v.first_name,
                            last_name |-> Head(team).v.last_name,
                            email |-> Head(team).v.email,
                            source |-> "team_members"]),
                   Tail(team))
\* mutant of MergeStaff: "if staff_id not in all_members" dropped
RECURSIVE MergeStaff_Overwrites(_, _)
MergeStaff_Overwrites(all_members, staff) ==
    IF Len(staff) = 0 THEN all_members
    ELSE MergeStaff_Overwrites(DictSet(all_members, Head(staff).k,
                                       [first_name |-> Head(staff).v.fname,
                                        last_name |-> Head(staff).v.lname,
                                        email |-> Head(staff).v.email,
                                        source |-> "staff"]),
                               Tail(staff))
RECURSIVE MergeStaff(_, _)
MergeStaff(all_members, staff) ==
    IF Len(staff) = 0 THEN all_members
    ELSE MergeStaff(IF ~DictHas(all_members, Head(staff).k)
                    THEN DictSet(all_members, Head(staff).k,
                                 [first_name |-> Head(staff).v.fname,
                                  last_name |-> Head(staff).v.lname,
                                  email |-> Head(staff).v.email,
                                  source |-> "staff"])
                    ELSE all_members,
                    Tail(staff))
RECURSIVE MergeProjectMembers(_, _)
MergeProjectMembers(all_members, project_members) ==
    IF Len(project_members) = 0 THEN all_members
    ELSE MergeProjectMembers(
             IF ~DictHas(all_members, Head(project_members).k)
             THEN DictSet(all_members, Head(project_members).k,
                          [first_name |-> Head(project_members).v.first_name,
                           last_name |-> Head(project_members).v.last_name,
                           email |-> Head(project_members).v.email,
                           source |-> "project_members"])
             ELSE all_members,
             Tail(project_members))

\* TeamAPI.get_all_members
get_all_members(s, down) ==
    Bind(get_team_by_identity_id(s, down), LAMBDA t :
    Bind(get_staff_by_id(t.s, down), LAMBDA st :
    Bind(list_project_members(st.s, down), LAMBDA pm :
    Ret(pm.s,
        MergeProjectMembers(MergeStaff(MergeTeam(<<>>, t.val), st.val),
                            pm.val)))))

\* TeamAPI.clear_cache
TeamAPI_clear_cache(s) ==
    [s EXCEPT !.team_cache = None,
              !.staff_cache = None,
              !.project_members_cache = None]

---------------------------------------------------------------------------
(* api/rates.py: RatesAPI *)

\* the empty dict {}
EmptyDict == [k \in {} |-> 0]

\* cache[key] = value on a dict
DictPut(cache, key, value) ==
    [k \in DOMAIN cache \cup {key} |-> IF k = key THEN value ELSE cache[k]]

\* the loop of get_team_member_rates (rates.py 37-41) over the response
RECURSIVE IndexRates(_, _)
IndexRates(cache, rates_data) ==
    IF Len(rates_data) = 0 THEN cache
    ELSE IndexRates(IF Head(rates_data).identity_id # 0
                         /\ TruthyJson(Head(rates_data).rate)
                    THEN DictPut(cache, Head(rates_data).identity_id,
                                 DecimalOf(Head(rates_data).rate))
                    ELSE cache,
                    Tail(rates_data))

\* self._team_member_rates_cache = cache; return self._team_member_rates_cache
CacheTeamRates(s, cache) ==
    Ret([s EXCEPT !.team_member_rates_cache = Some(cache)], cache)

\* mutant of TeamRatesFetched: a failed fetch propagates
TeamRatesFetched_Raises(r) ==
    IF r.ok THEN CacheTeamRates(r.s, IndexRates(EmptyDict, remote.team_member_rates))
    ELSE Raise(r.s)

\* mutant of TeamRatesFetched: a failed fetch yields {} and is not cached
TeamRatesFetched_FailureNotCached(r) ==
    IF r.ok THEN CacheTeamRates(r.s, IndexRates(EmptyDict, remote.team_member_rates))
    ELSE Ret(r.s, EmptyDict)

\* the try of get_team_member_rates (rates.py 32-46) on the request's outcome r
TeamRatesFetched(r) ==
    IF r.ok THEN CacheTeamRates(r.s, IndexRates(EmptyDict, remote.team_member_rates))
    ELSE CacheTeamRates(r.s, EmptyDict)

\* RatesAPI.get_team_member_rates: the url is built outside the try, the
\* request inside it
get_team_member_rates(s, down) ==
    IF ~IsNone(s.team_member_rates_cache)
    THEN Ret(s, Val(s.team_member_rates_cache))
    ELSE Bind(ensure_account_info(s, down),
              LAMBDA a : TeamRatesFetched(client_get(a.s, EpTeamRates, down)))

\* RatesAPI.get_team_member_billable_rate: rates.get(identity_id)
get_team_member_billable_rate(s, identity_id, down) ==
    Bind(get_team_member_rates(s, down), LAMBDA r :
    Ret(r.s, IF identity_id \in DOMAIN r.val THEN Some(r.val[identity_id])
             ELSE None))

\* RatesAPI.list_services
list_services(s, down) ==
    Bind(ensure_account_info(s, down), LAMBDA a :
    Bind(client_get(a.s, EpServices, down), LAMBDA r :
    Ret(r.s, remote.services)))

\* {s.id: s for s in services}: a later service replaces an earlier one
IndexServices(services) ==
    [k \in {services[i].id : i \in 1..Len(services)} |->
        services[CHOOSE i \in 1..Len(services) :
                     /\ services[i].id = k
                     /\ \A j \in (i + 1)..Len(services) : services[j].id # k]]

\* self._services_cache = cache; return self._services_cache
CacheServices(s, cache) == Ret([s EXCEPT !.services_cache = Some(cache)], cache)

\* RatesAPI.get_services_by_id
get_services_by_id(s, down) ==
    IF ~IsNone(s.services_cache) THEN Ret(s, Val(s.services_cache))
    ELSE Bind(list_services(s, down),
              LAMBDA r : CacheServices(r.s, IndexServices(r.val)))

\* self._service_rates_cache[service_id] = rate; return rate
CacheServiceRate(s, service_id, rate) ==
    Ret([s EXCEPT !.service_rates_cache = DictPut(@, service_id, rate)], rate)

\* mutant of ServiceRateFetched: "no rate" and a failed request are not cached
ServiceRateFetched_NoNegativeCache(r, service_id) ==
    IF r.ok /\ TruthyJson(remote.service_rate[service_id])
    THEN CacheServiceRate(r.s, service_id,
                          Some(DecimalOf(remote.service_rate[service_id])))
    ELSE Ret(r.s, None)

\* the try of get_service_rate (rates.py 91-102) on the request's outcome r:
\* "no rate" and a failed request are cached as None
ServiceRateFetched(r, service_id) ==
    IF r.ok /\ TruthyJson(remote.service_rate[service_id])
    THEN CacheServiceRate(r.s, service_id,
                          Some(DecimalOf(remote.service_rate[service_id])))
    ELSE CacheServiceRate(r.s, service_id, None)

\* RatesAPI.get_service_rate: the url is built outside the try, the request
\* inside it
get_service_rate(s, service_id, down) ==
    IF service_id \in DOMAIN s.service_rates_cache
    THEN Ret(s, s.service_rates_cache[service_id])
    ELSE Bind(ensure_account_info(s, down), LAMBDA a :
         ServiceRateFetched(client_get(a.s, EpServiceRate(service_id), down),
                            service_id))

\* RatesAPI.get_staff_rate
get_staff_rate(s, identity_id, down) ==
    Bind(get_staff_by_id(s, down), LAMBDA st :
    Ret(st.s, IF DictHas(st.val, identity_id)
              THEN DictGet(st.val, identity_id).rate
              ELSE None))

\* mutant of Qualifies: the zero filter dropped ("rate is not None")
Qualifies_NotNone(rate) == Len(rate) = 1
\* the tests of get_billable_rate: "rate is not None and rate > 0"
Qualifies(rate) == Positive(rate)
\* "if service_id:" on an Optional[int]
ServiceGiven(service_id) == Len(service_id) = 1 /\ service_id[1] # 0

\* RatesAPI.get_billable_rate, steps 5 and 6 (rates.py 151-157)
BillableByEmail(s, identity_id, down) ==
    Bind(get_team_member_email(s, identity_id, down), LAMBDA e :
    IF TruthyStr(e.val) /\ Qualifies(RatesConfig_get_billable_rate(Val(e.val)))
    THEN Ret(e.s, RatesConfig_get_billable_rate(Val(e.val)))
    ELSE Ret(e.s, cfg.default_billable_rate))

\* RatesAPI.get_billable_rate, steps 3 and 4 (rates.py 143-149)
BillableByDirectory(s, identity_id, down) ==
    Bind(get_team_member_billable_rate(s, identity_id, down), LAMBDA t :
    IF Qualifies(t.val) THEN t
    ELSE
    Bind(get_staff_rate(t.s, identity_id, down), LAMBDA st :
    IF Qualifies(st.val) THEN st
    ELSE BillableByEmail(st.s, identity_id, down)))

\* RatesAPI.get_billable_rate, steps 2 to 6 (rates.py 138-157)
BillableByService(s, identity_id, service_id, down) ==
    IF ServiceGiven(service_id)
    THEN Bind(get_service_rate(s, Val(service_id), down), LAMBDA sr :
         IF Qualifies(sr.val) THEN sr
         ELSE BillableByDirectory(sr.s, identity_id, down))
    ELSE BillableByDirectory(s, identity_id, down)

\* mutant of get_billable_rate: the service rate consulted before the
\* id-keyed config override
get_billable_rate_ServiceFirst(s, identity_id, service_id, down) ==
    Bind(IF ServiceGiven(service_id)
         THEN get_service_rate(s, Val(service_id), down)
         ELSE Ret(s, None),
         LAMBDA sr :
         IF Qualifies(sr.val) THEN sr
         ELSE IF Qualifies(RatesConfig_get_billable_rate_by_id(identity_id))
         THEN Ret(sr.s, RatesConfig_get_billable_rate_by_id(identity_id))
         ELSE BillableByDirectory(sr.s, identity_id, down))

\* RatesAPI.get_billable_rate
get_billable_rate(s, identity_id, service_id, down) ==
    IF Qualifies(RatesConfig_get_billable_rate_by_id(identity_id))
    THEN Ret(s, RatesConfig_get_billable_rate_by_id(identity_id))
    ELSE BillableByService(s, identity_id, service_id, down)

\* RatesAPI.get_cost_rate
get_cost_rate(s, identity_id, down) ==
    IF ~IsNone(RatesConfig_get_cost_rate_by_id(identity_id))
    THEN Ret(s, RatesConfig_get_cost_rate_by_id(identity_id))
    ELSE Bind(get_team_member_email(s, identity_id, down), LAMBDA e :
         IF TruthyStr(e.val) /\ ~IsNone(RatesConfig_get_cost_rate(Val(e.val)))
         THEN Ret(e.s, RatesConfig_get_cost_rate(Val(e.val)))
         ELSE Ret(e.s, cfg.default_cost_rate))

\* mutant of RatesAPI.clear_cache: the per-service rates are kept
RatesAPI_clear_cache_KeepsServiceRates(s) ==
    [s EXCEPT !.services_cache = None,
              !.team_member_rates_cache = None]

\* mutant of RatesAPI.clear_cache: the directories of TeamAPI are dropped too
RatesAPI_clear_cache_DropsDirectories(s) ==
    [s EXCEPT !.services_cache = None,
              !.service_rates_cache = EmptyDict,
              !.team_member_rates_cache = None,
              !.team_cache = None,
              !.staff_cache = None,
              !.project_members_cache = None]

\* RatesAPI.clear_cache
RatesAPI_clear_cache(s) ==
    [s EXCEPT !.services_cache = None,
              !.service_rates_cache = EmptyDict,
              !.team_member_rates_cache = None]

---------------------------------------------------------------------------
(* models/schemas.py TimeEntry and cli.py: the totals of `fb time summary` *)
(* Durations are multiples of a quarter of an hour; hours and amounts are  *)
(* carried in quarters (4 * hours, 4 * hours * rate), which is exact.      *)

\* TimeEntry.hours = Decimal(duration) / Decimal(3600), times 4
TimeEntry_hours(entry) == entry.duration \div 900

\* The Python type of a number: "int", "Decimal" or "float".
\* type(a + b): an int is coerced to the other operand's type; Decimal and
\* float do not add (TypeError)
TypeOfAdd(a, b) ==
    IF a = b THEN a
    ELSE IF a = "int" THEN b
    ELSE IF b = "int" THEN a
    ELSE "TypeError"

\* type(a * b): as for +
TypeOfMul(a, b) == TypeOfAdd(a, b)

\* type(e.hours): the property returns Decimal(...) / Decimal(3600)
TypeOfHours == "Decimal"

\* type(rate) of a truthy rate: every rate source yields a Decimal
TypeOfRate == "Decimal"

\* type(float(x))
TypeOfFloat(x) == "float"

\* the type of a running total of type `start` after n additions of items of
\* type `item`; sum(...) starts from the int 0
RECURSIVE TypeOfSum(_, _, _)
TypeOfSum(start, n, item) ==
    IF n = 0 THEN start ELSE TypeOfSum(TypeOfAdd(start, item), n - 1, item)

\* a running total and the type it is held in
Held(total, type) == [total |-> total, type |-> type]

\* "if rate: total += entry.hours * rate"
AddAmount(total, entry, rate) ==
    IF TruthyRate(rate) THEN total + TimeEntry_hours(entry) * Val(rate) ELSE total

\* cli.py 395-397 on the outcome c of get_cost_rate
CostAdded(acc, entry, c) ==
    IF ~c.ok THEN [acc EXCEPT !.s = c.s, !.ok = FALSE]
    ELSE [acc EXCEPT !.s = c.s, !.total_cost = AddAmount(@, entry, c.val)]

\* cli.py 392-397 on the outcome b of get_billable_rate
BillableAdded(acc, entry, b, down) ==
    IF ~b.ok THEN [acc EXCEPT !.s = b.s, !.ok = FALSE]
    ELSE CostAdded([acc EXCEPT !.total_billable = AddAmount(@, entry, b.val)],
                   entry, get_cost_rate(b.s, entry.identity_id, down))

\* mutant of TotalsStep: the cost rate looked up inside "if entry.billable:"
TotalsStep_CostOfBillableOnly(acc, entry, down) ==
    IF entry.billable
    THEN BillableAdded(acc, entry,
                       get_billable_rate(acc.s, entry.identity_id,
                                         entry.service_id, down),
                       down)
    ELSE acc

\* one iteration of the totals loop (cli.py 390-397)
TotalsStep(acc, entry, down) ==
    IF entry.billable
    THEN BillableAdded(acc, entry,
                       get_billable_rate(acc.s, entry.identity_id,
                                         entry.service_id, down),
                       down)
    ELSE CostAdded(acc, entry, get_cost_rate(acc.s, entry.identity_id, down))

\* the totals loop: it ends at the first lookup that raises
RECURSIVE TotalsLoop(_, _, _)
TotalsLoop(acc, entries, down) ==
    IF Len(entries) = 0 \/ ~acc.ok THEN acc
    ELSE TotalsLoop(TotalsStep(acc, Head(entries), down), Tail(entries), down)

\* sum(e.hours for e in entries)
RECURSIVE SumHours(_)
SumHours(entries) ==
    IF Len(entries) = 0 THEN 0
    ELSE TimeEntry_hours(Head(entries)) + SumHours(Tail(entries))

\* a quotient of two Decimals, kept exact as numerator over denominator
Ratio(num, den) == [num |-> num, den |-> den]

\* Decimal.__truediv__: dividing by zero raises (decimal.DivisionByZero, or
\* InvalidOperation for 0 / 0)
Decimal_truediv(a, b) ==
    IF b = 0 THEN [ok |-> FALSE, val |-> Ratio(0, 1)]
    ELSE [ok |-> TRUE, val |-> Ratio(a, b)]

\* mutant of Margin: the quotient taken without the "if total_billable" guard
Margin_Unguarded(profit, total_billable) ==
    Decimal_truediv(profit * 100, total_billable)

\* "float(profit / total_billable * 100) if total_billable else 0.0"
\* (cli.py 400, and 219 in time_list; tables.py 163 in the text summary)
Margin(profit, total_billable) ==
    IF total_billable # 0 THEN Decimal_truediv(profit * 100, total_billable)
    ELSE [ok |-> TRUE, val |-> Ratio(0, 1)]

\* the running totals of _print_time_summary_json: total_hours (386),
\* total_billable and total_cost (387-397) and, for each group, g_hours,
\* g_billable and g_cost (413-423)
SummaryHeld(entries, groups) ==
    {Held("total_hours", TypeOfSum("int", Len(entries), TypeOfHours)),
     Held("total_billable",
          TypeOfSum("Decimal", Len(entries), TypeOfMul(TypeOfHours, TypeOfRate))),
     Held("total_cost",
          TypeOfSum("Decimal", Len(entries), TypeOfMul(TypeOfHours, TypeOfRate)))}
    \cup
    IF Len(groups) = 0 THEN {}
    ELSE {Held("g_hours", TypeOfSum("int", 1, TypeOfHours)),
          Held("g_billable",
               TypeOfSum("Decimal", 1, TypeOfMul(TypeOfHours, TypeOfRate))),
          Held("g_cost",
               TypeOfSum("Decimal", 1, TypeOfMul(TypeOfHours, TypeOfRate)))}

\* the output dict (cli.py 433-441) once the margin m is computed
OutputWith(acc, entries, groups, m) ==
    IF ~m.ok THEN Raise(acc.s)
    ELSE Ret(acc.s, [total_hours |-> SumHours(entries),
                     total_billable |-> acc.total_billable,
                     total_cost |-> acc.total_cost,
                     profit |-> acc.total_billable - acc.total_cost,
                     margin |-> m.val,
                     groups |-> groups,
                     held |-> SummaryHeld(entries, groups)])

\* the totals of the output (cli.py 399-400, 433-441)
Output(acc, entries, groups) ==
    IF ~acc.ok THEN Raise(acc.s)
    ELSE OutputWith(acc, entries, groups,
                    Margin(acc.total_billable - acc.total_cost, acc.total_billable))

NoClientText == <<"N", "o", Space, "C", "l", "i", "e", "n", "t">>
NoProjectText == <<"N", "o", Space, "P", "r", "o", "j", "e", "c", "t">>

\* ord(c) on the alphabet of the model
CodePoint(c) ==
    CASE c = " " -> 32 [] c = "(" -> 40 [] c = ")" -> 41 [] c = "-" -> 45
      [] c = "1" -> 49 [] c = "2" -> 50 [] c = "3" -> 51 [] c = "4" -> 52
      [] c = "5" -> 53 [] c = "6" -> 54 [] c = "7" -> 55 [] c = "8" -> 56
      [] c = "9" -> 57
      [] c = "A" -> 65 [] c = "B" -> 66 [] c = "C" -> 67 [] c = "L" -> 76
      [] c = "N" -> 78 [] c = "P" -> 80 [] c = "S" -> 83 [] c = "U" -> 85
      [] c = "a" -> 97 [] c = "b" -> 98 [] c = "c" -> 99 [] c = "e" -> 101
      [] c = "i" -> 105 [] c = "j" -> 106 [] c = "k" -> 107 [] c = "l" -> 108
      [] c = "n" -> 110 [] c = "o" -> 111 [] c = "p" -> 112 [] c = "r" -> 114
      [] c = "s" -> 115 [] c = "t" -> 116 [] c = "u" -> 117 [] c = "v" -> 118
      [] c = "w" -> 119

\* str.__lt__: code point by code point, a proper prefix is smaller
RECURSIVE StrLess(_, _)
StrLess(a, b) ==
    IF Len(b) = 0 THEN FALSE
    ELSE IF Len(a) = 0 THEN TRUE
    ELSE IF Head(a) = Head(b) THEN StrLess(Tail(a), Tail(b))
    ELSE CodePoint(Head(a)) < CodePoint(Head(b))

\* one item put in its place in a sorted list of (key, value) items; the
\* keys of a dict are distinct, so the values are never compared
RECURSIVE Insert(_, _)
Insert(items, item) ==
    IF Len(items) = 0 THEN <<item>>
    ELSE IF StrLess(item.k, Head(items).k) THEN <<item>> \o items
    ELSE <<Head(items)>> \o Insert(Tail(items), item)

\* sorted(group_map.items())
RECURSIVE Sorted(_)
Sorted(items) ==
    IF Len(items) = 0 THEN <<>>
    ELSE Insert(Sorted(SubSeq(items, 1, Len(items) - 1)), items[Len(items)])

\* mutant of SetDefaultAppend: the entry replaces the group's entries
SetDefaultAppend_Replaces(group_map, key, entry) ==
    DictSet(group_map, key, <<entry>>)

\* group_map.setdefault(key, []).append(entry)
SetDefaultAppend(group_map, key, entry) ==
    IF DictHas(group_map, key)
    THEN DictSet(group_map, key, Append(DictGet(group_map, key), entry))
    ELSE DictSet(group_map, key, <<entry>>)

\* the group key of an entry (cli.py 406-409, 703-709); the entries of the
\* model belong to no client and no project
GroupKey(s, entry, group_by, down) ==
    IF group_by = "teammate"
    THEN get_team_member_name(s, entry.identity_id, down)
    ELSE IF group_by = "project" THEN Ret(s, NoProjectText)
    ELSE Ret(s, NoClientText)

\* cli.py 410 on the outcome k of the key lookup
GroupAdded(acc, entry, k) ==
    IF ~k.ok THEN [acc EXCEPT !.s = k.s, !.ok = FALSE]
    ELSE [acc EXCEPT !.s = k.s,
                     !.group_map = SetDefaultAppend(@, k.val, entry)]

\* the loop building group_map (cli.py 405-410)
RECURSIVE GroupLoop(_, _, _, _)
GroupLoop(acc, entries, group_by, down) ==
    IF Len(entries) = 0 \/ ~acc.ok THEN acc
    ELSE GroupLoop(GroupAdded(acc, Head(entries),
                              GroupKey(acc.s, Head(entries), group_by, down)),
                   Tail(entries), group_by, down)

\* groups[name] = {...} (cli.py 421-427) on the totals t of the group
GroupTotalled(acc, item, t) ==
    IF ~t.ok THEN [acc EXCEPT !.s = t.s, !.ok = FALSE]
    ELSE [acc EXCEPT !.s = t.s,
                     !.groups = Append(@, [k |-> item.k,
                                           v |-> [hours |-> SumHours(item.v),
                                                  billable |-> t.total_billable,
                                                  cost |-> t.total_cost,
                                                  profit |-> t.total_billable
                                                                - t.total_cost]])]

\* the loop over the sorted groups (cli.py 412-427); the totals of a group
\* are summed as the totals of the month are
RECURSIVE GroupsLoop(_, _, _)
GroupsLoop(acc, items, down) ==
    IF Len(items) = 0 \/ ~acc.ok THEN acc
    ELSE GroupsLoop(GroupTotalled(acc, Head(items),
                                  TotalsLoop([s |-> acc.s, ok |-> TRUE,
                                              total_billable |-> 0,
                                              total_cost |-> 0],
                                             Head(items).v, down)),
                    Tail(items), down)

\* cli.py 433-441 on the groups g
GroupsDone(acc, entries, g) ==
    IF ~g.ok THEN Raise(g.s)
    ELSE Output([acc EXCEPT !.s = g.s], entries, g.groups)

\* cli.py 412-431 on the group_map gm
GroupsBuilt(acc, entries, gm, down) ==
    IF ~gm.ok THEN Raise(gm.s)
    ELSE GroupsDone(acc, entries,
                    GroupsLoop([s |-> gm.s, ok |-> TRUE, groups |-> <<>>],
                               Sorted(gm.group_map), down))

\* cli.py 402-431 on the totals acc; group_by is "none", "teammate" or
\* "client"
Grouped(acc, entries, group_by, down) ==
    IF ~acc.ok THEN Raise(acc.s)
    ELSE IF group_by = "none" THEN Output(acc, entries, <<>>)
    ELSE GroupsBuilt(acc, entries,
                     GroupLoop([s |-> acc.s, ok |-> TRUE, group_map |-> <<>>],
                               entries, group_by, down),
                     down)

\* _print_time_summary_json
print_time_summary_json(s, entries, group_by, down) ==
    Grouped(TotalsLoop([s |-> s, ok |-> TRUE, total_billable |-> 0,
                        total_cost |-> 0],
                       entries, down),
            entries, group_by, down)

---------------------------------------------------------------------------
(* cli.py: time_list with --json, and ui/tables.py: TimeEntryRow *)

ServiceText == <<"S", "e", "r", "v", "i", "c", "e">>
Dash == <<"-">>

\* RatesAPI.get_service_name
get_service_name(s, service_id, down) ==
    Bind(get_services_by_id(s, down), LAMBDA r :
    IF service_id \in DOMAIN r.val
    THEN Ret(r.s, r.val[service_id].name)
    ELSE Ret(r.s, ServiceText \o <<Space>> \o Str(service_id)))

\* TimeEntryRow(...) as time_list builds it (cli.py 201-211)
TimeEntryRow(teammate, service, hours, billable_rate, cost_rate) ==
    [teammate |-> teammate, service |-> service, hours |-> hours,
     billable_rate |-> billable_rate, cost_rate |-> cost_rate]

\* TimeEntryRow.billable_amount
TimeEntryRow_billable_amount(row) ==
    IF IsNone(row.billable_rate) THEN None
    ELSE Some(row.hours * Val(row.billable_rate))

\* TimeEntryRow.cost_amount
TimeEntryRow_cost_amount(row) ==
    IF IsNone(row.cost_rate) THEN None
    ELSE Some(row.hours * Val(row.cost_rate))

\* "float(x) if x else None"
FloatOrNone(x) == IF TruthyRate(x) THEN x ELSE None

\* "x or Decimal('0')"
OrZero(x) == IF TruthyRate(x) THEN Val(x) ELSE 0

\* rows.append(TimeEntryRow(...)) on the outcome c of get_cost_rate
RowAppended(acc, entry, teammate, service, billable_rate, c) ==
    IF ~c.ok THEN [acc EXCEPT !.s = c.s, !.ok = FALSE]
    ELSE [acc EXCEPT !.s = c.s,
                     !.rows = Append(@, TimeEntryRow(teammate, service,
                                                     TimeEntry_hours(entry),
                                                     billable_rate, c.val))]

\* cli.py 199-200 on the outcome b of the billable rate lookup
RowBillable(acc, entry, teammate, service, b, down) ==
    IF ~b.ok THEN [acc EXCEPT !.s = b.s, !.ok = FALSE]
    ELSE RowAppended(acc, entry, teammate, service, b.val,
                     get_cost_rate(b.s, entry.identity_id, down))

\* cli.py 197-199 on the outcome sv of the service name lookup
RowService(acc, entry, teammate, sv, down) ==
    IF ~sv.ok THEN [acc EXCEPT !.s = sv.s, !.ok = FALSE]
    ELSE RowBillable(acc, entry, teammate, sv.val,
                     IF entry.billable
                     THEN get_billable_rate(sv.s, entry.identity_id,
                                            entry.service_id, down)
                     ELSE Ret(sv.s, None),
                     down)

\* cli.py 194-197 on the outcome t of get_team_member_name
RowTeammate(acc, entry, t, down) ==
    IF ~t.ok THEN [acc EXCEPT !.s = t.s, !.ok = FALSE]
    ELSE RowService(acc, entry, t.val,
                    IF ServiceGiven(entry.service_id)
                    THEN get_service_name(t.s, Val(entry.service_id), down)
                    ELSE Ret(t.s, Dash),
                    down)

\* one iteration of the rows loop (cli.py 193-211)
RowsStep(acc, entry, down) ==
    RowTeammate(acc, entry,
                get_team_member_name(acc.s, entry.identity_id, down), down)

\* the rows loop: it ends at the first lookup that raises
RECURSIVE RowsLoop(_, _, _)
RowsLoop(acc, entries, down) ==
    IF Len(entries) = 0 \/ ~acc.ok THEN acc
    ELSE RowsLoop(RowsStep(acc, Head(entries), down), Tail(entries), down)

\* one element of "entries" in the JSON output (cli.py 222-234)
JsonEntry(r) ==
    [teammate |-> r.teammate, service |-> r.service, hours |-> r.hours,
     billable_rate |-> FloatOrNone(r.billable_rate),
     cost_rate |-> FloatOrNone(r.cost_rate),
     billable_amount |-> FloatOrNone(TimeEntryRow_billable_amount(r)),
     cost_amount |-> FloatOrNone(TimeEntryRow_cost_amount(r))]

\* sum(r.hours for r in rows)
RECURSIVE SumRowHours(_)
SumRowHours(rows) ==
    IF Len(rows) = 0 THEN 0 ELSE Head(rows).hours + SumRowHours(Tail(rows))

\* sum(r.billable_amount or Decimal("0") for r in rows)
RECURSIVE SumBillableAmounts(_)
SumBillableAmounts(rows) ==
    IF Len(rows) = 0 THEN 0
    ELSE OrZero(TimeEntryRow_billable_amount(Head(rows)))
            + SumBillableAmounts(Tail(rows))

\* sum(r.cost_amount or Decimal("0") for r in rows)
RECURSIVE SumCostAmounts(_)
SumCostAmounts(rows) ==
    IF Len(rows) = 0 THEN 0
    ELSE OrZero(TimeEntryRow_cost_amount(Head(rows))) + SumCostAmounts(Tail(rows))

\* the running totals of time_list (cli.py 215-217): three sum(...) over
\* Decimal items
TimeListHeld(rows) ==
    {Held("total_hours", TypeOfSum("int", Len(rows), TypeOfHours)),
     Held("total_billable",
          TypeOfSum("int", Len(rows), TypeOfMul(TypeOfHours, TypeOfRate))),
     Held("total_cost",
          TypeOfSum("int", Len(rows), TypeOfMul(TypeOfHours, TypeOfRate)))}

\* the JSON output (cli.py 220-243) once the totals are summed
TimeListOutput(s, rows, total_billable, total_cost, m) ==
    IF ~m.ok THEN Raise(s)
    ELSE Ret(s, [entries |-> [i \in 1..Len(rows) |-> JsonEntry(rows[i])],
                 totals |-> [hours |-> SumRowHours(rows),
                             billable |-> total_billable,
                             cost |-> total_cost,
                             profit |-> total_billable - total_cost,
                             margin |-> m.val],
                 held |-> TimeListHeld(rows)])

\* cli.py 215-219
TimeListTotals(s, rows, total_billable, total_cost) ==
    TimeListOutput(s, rows, total_billable, total_cost,
                   Margin(total_billable - total_cost, total_billable))

\* cli.py 214-245 on the rows built
TimeListRows(acc) ==
    IF ~acc.ok THEN Raise(acc.s)
    ELSE TimeListTotals(acc.s, acc.rows, SumBillableAmounts(acc.rows),
                        SumCostAmounts(acc.rows))

\* time_list with --json, from the entries listed (cli.py 192-245); an
\* exception ends the command with an error message and exit status 1
time_list_json(s, entries, down) ==
    TimeListRows(RowsLoop([s |-> s, ok |-> TRUE, rows |-> <<>>], entries, down))

---------------------------------------------------------------------------
(* cli.py: time_unbilled *)

\* "if rate: total_amount += e.hours * rate" on the outcome b of
\* get_billable_rate
AmountAdded(acc, entry, b) ==
    IF ~b.ok THEN [acc EXCEPT !.s = b.s, !.ok = FALSE]
    ELSE [acc EXCEPT !.s = b.s, !.total_amount = AddAmount(@, entry, b.val)]

\* the loop summing the amount of some entries (cli.py 695-698, 749-752)
RECURSIVE AmountLoop(_, _, _)
AmountLoop(acc, entries, down) ==
    IF Len(entries) = 0 \/ ~acc.ok THEN acc
    ELSE AmountLoop(AmountAdded(acc, Head(entries),
                                get_billable_rate(acc.s, Head(entries).identity_id,
                                                  Head(entries).service_id, down)),
                    Tail(entries), down)

\* groups[key], as {"hours": 0, "amount": 0} for a new key (cli.py 711-712)
GroupEntry(groups, key) ==
    IF DictHas(groups, key) THEN DictGet(groups, key)
    ELSE [hours |-> 0, amount |-> 0,
          types |-> [hours |-> "int", amount |-> "int"]]

\* cli.py 713-716 on the group g of the entry: float(e.hours) and, for a
\* truthy rate, float(e.hours * rate) are added to the group's numbers
Credited(g, entry, rate) ==
    [hours |-> g.hours + TimeEntry_hours(entry),
     amount |-> AddAmount(g.amount, entry, rate),
     types |-> [hours |-> TypeOfAdd(g.types.hours, TypeOfFloat(TypeOfHours)),
                amount |-> IF TruthyRate(rate)
                           THEN TypeOfAdd(g.types.amount,
                                          TypeOfFloat(TypeOfMul(TypeOfHours,
                                                                TypeOfRate)))
                           ELSE g.types.amount]]

\* cli.py 711-716: a new key goes last in the dict
GroupCredited(groups, key, entry, rate) ==
    DictSet(groups, key, Credited(GroupEntry(groups, key), entry, rate))

\* cli.py 714-716 on the outcome b of get_billable_rate
JsonGroupRated(acc, entry, key, b) ==
    IF ~b.ok THEN [acc EXCEPT !.s = b.s, !.ok = FALSE]
    ELSE [acc EXCEPT !.s = b.s,
                     !.groups = GroupCredited(@, key, entry, b.val)]

\* cli.py 703-714 on the outcome k of the key lookup
JsonGroupKeyed(acc, entry, k, down) ==
    IF ~k.ok THEN [acc EXCEPT !.s = k.s, !.ok = FALSE]
    ELSE JsonGroupRated(acc, entry, k.val,
                        get_billable_rate(k.s, entry.identity_id,
                                          entry.service_id, down))

\* the loop building "groups" of the JSON output (cli.py 702-716)
RECURSIVE JsonGroupLoop(_, _, _, _)
JsonGroupLoop(acc, entries, group_by, down) ==
    IF Len(entries) = 0 \/ ~acc.ok THEN acc
    ELSE JsonGroupLoop(JsonGroupKeyed(acc, Head(entries),
                                      GroupKey(acc.s, Head(entries), group_by,
                                               down),
                                      down),
                       Tail(entries), group_by, down)

\* one group printed (cli.py 748-757) on the amount t of the group
TextGroupTotalled(acc, item, t) ==
    IF ~t.ok THEN [acc EXCEPT !.s = t.s, !.ok = FALSE]
    ELSE [acc EXCEPT !.s = t.s,
                     !.groups = Append(@, [k |-> item.k,
                                           v |-> [hours |-> SumHours(item.v),
                                                  amount |-> t.total_amount,
                                                  types |->
                                                    [hours |->
                                                        TypeOfSum("int", Len(item.v),
                                                                  TypeOfFloat(TypeOfHours)),
                                                     amount |->
                                                        TypeOfSum("Decimal",
                                                                  Len(item.v),
                                                                  TypeOfMul(TypeOfHours,
                                                                            TypeOfRate))]]])]

\* the loop printing the sorted groups (cli.py 747-757)
RECURSIVE TextGroupsLoop(_, _, _)
TextGroupsLoop(acc, items, down) ==
    IF Len(items) = 0 \/ ~acc.ok THEN acc
    ELSE TextGroupsLoop(TextGroupTotalled(acc, Head(items),
                                          AmountLoop([s |-> acc.s, ok |-> TRUE,
                                                      total_amount |-> 0],
                                                     Head(items).v, down)),
                        Tail(items), down)

\* the running totals of time_unbilled: total_hours (cli.py 692),
\* total_amount (693-698) and the hours and amount of every group (711-716
\* or 749-753)
UnbilledHeld(entries, groups) ==
    {Held("total_hours", TypeOfSum("int", Len(entries), TypeOfFloat(TypeOfHours))),
     Held("total_amount",
          TypeOfSum("Decimal", Len(entries), TypeOfMul(TypeOfHours, TypeOfRate)))}
    \cup {Held("group hours", groups[i].v.types.hours) : i \in 1..Len(groups)}
    \cup {Held("group amount", groups[i].v.types.amount) : i \in 1..Len(groups)}

\* what is printed (cli.py 718-723, 747-761): the totals and the groups
UnbilledOutput(acc, entries, g) ==
    IF ~g.ok THEN Raise(g.s)
    ELSE Ret(g.s, [total_hours |-> SumHours(entries),
                   total_amount |-> acc.total_amount,
                   groups |-> g.groups,
                   held |-> UnbilledHeld(entries, g.groups)])

\* the text branch (cli.py 726-761) on the groups gm
UnbilledText(acc, entries, gm, down) ==
    IF ~gm.ok THEN Raise(gm.s)
    ELSE UnbilledOutput(acc, entries,
                        TextGroupsLoop([s |-> gm.s, ok |-> TRUE, groups |-> <<>>],
                                       Sorted(gm.group_map), down))

\* cli.py 700-761 on the total acc
UnbilledTotalled(acc, entries, group_by, as_json, down) ==
    IF ~acc.ok THEN Raise(acc.s)
    ELSE IF as_json
    THEN UnbilledOutput(acc, entries,
                        JsonGroupLoop([s |-> acc.s, ok |-> TRUE, groups |-> <<>>],
                                      entries, group_by, down))
    ELSE UnbilledText(acc, entries,
                      GroupLoop([s |-> acc.s, ok |-> TRUE, group_map |-> <<>>],
                                entries, group_by, down),
                      down)

\* time_unbilled from the unbilled billable entries listed (cli.py 685-761);
\* group_by is "teammate", "project" or "client"
time_unbilled(s, entries, group_by, as_json, down) ==
    IF Len(entries) = 0
    THEN Ret(s, [total_hours |-> 0, total_amount |-> 0, groups |-> <<>>,
                 held |-> {}])
    ELSE UnbilledTotalled(AmountLoop([s |-> s, ok |-> TRUE, total_amount |-> 0],
                                     entries, down),
                          entries, group_by, as_json, down)

---------------------------------------------------------------------------
(* api/reports.py: calculate_dso, on decimal.Decimal under the default      *)
(* context (28 significant digits, ROUND_HALF_EVEN). A Decimal >= 0 is its  *)
(* coefficient, a sequence of digits, and the exponent of its last digit.   *)

\* decimal.getcontext().prec, which the code leaves at its default
Prec == 28

RECURSIVE Pow10(_)
Pow10(n) == IF n = 0 THEN 1 ELSE 10 * Pow10(n - 1)

\* the decimal digits of a natural number; none for 0
RECURSIVE DigitsOf(_)
DigitsOf(n) == IF n = 0 THEN <<>> ELSE DigitsOf(n \div 10) \o <<n % 10>>

\* the natural number a sequence of digits writes
RECURSIVE ToInt(_)
ToInt(digits) ==
    IF Len(digits) = 0 THEN 0
    ELSE 10 * ToInt(SubSeq(digits, 1, Len(digits) - 1)) + digits[Len(digits)]

\* coefficient + 1
RECURSIVE Increment(_)
Increment(digits) ==
    IF Len(digits) = 0 THEN <<1>>
    ELSE IF digits[Len(digits)] = 9
    THEN Increment(SubSeq(digits, 1, Len(digits) - 1)) \o <<0>>
    ELSE SubSeq(digits, 1, Len(digits) - 1) \o <<digits[Len(digits)] + 1>>

\* mutant of RoundsUp: the digits beyond the n-th are cut off (ROUND_DOWN)
RoundsUp_Never(digits, sticky, n) == FALSE

\* ROUND_HALF_EVEN, keeping n digits of a longer coefficient: whether the
\* kept part is incremented; `sticky` tells that nonzero digits follow the
\* ones given
RoundsUp(digits, sticky, n) ==
    \/ digits[n + 1] > 5
    \/ /\ digits[n + 1] = 5
       /\ \/ sticky
          \/ \E i \in (n + 2)..Len(digits) : digits[i] # 0
          \/ n > 0 /\ digits[n] % 2 = 1

\* a Decimal rounded to at most n digits of coefficient
Rounded(dec, sticky, n) ==
    IF Len(dec.digits) <= n THEN dec
    ELSE [digits |-> IF RoundsUp(dec.digits, sticky, n)
                     THEN Increment(SubSeq(dec.digits, 1, n))
                     ELSE SubSeq(dec.digits, 1, n),
          exp |-> dec.exp + Len(dec.digits) - n]

\* the exponent of the first significant digit of a / b, for a, b > 0
RECURSIVE LeadExp(_, _)
LeadExp(a, b) ==
    IF a >= 10 * b THEN LeadExp(a, 10 * b) + 1
    ELSE IF a < b THEN LeadExp(10 * a, b) - 1
    ELSE 0

\* long division: the next n digits of r / b for a remainder r < b, and the
\* remainder after them
RECURSIVE LongDivDigits(_, _, _)
LongDivDigits(r, b, n) ==
    IF n = 0 THEN <<>>
    ELSE <<(10 * r) \div b>> \o LongDivDigits((10 * r) % b, b, n - 1)
RECURSIVE LongDivRem(_, _, _)
LongDivRem(r, b, n) == IF n = 0 THEN r ELSE LongDivRem((10 * r) % b, b, n - 1)

\* a / b for B <= A < 10 * B, the first digit at exponent e: Prec + 1 digits
\* are produced and rounded to Prec
QuotientFrom(A, B, e) ==
    Rounded([digits |-> <<A \div B>> \o LongDivDigits(A % B, B, Prec),
             exp |-> e - Prec],
            LongDivRem(A % B, B, Prec) # 0, Prec)

\* a / b with the first digit at exponent e
QuotientAt(a, b, e) ==
    QuotientFrom(IF e < 0 THEN a * Pow10(0 - e) ELSE a,
                 IF e > 0 THEN b * Pow10(e) ELSE b, e)

\* Decimal.__truediv__ for integers a >= 0 and b > 0
Quotient(a, b) ==
    IF a = 0 THEN [digits |-> <<0>>, exp |-> 0]
    ELSE QuotientAt(a, b, LeadExp(a, b))

\* coefficient * n + carry, for a natural number n
RECURSIVE MulDigits(_, _, _)
MulDigits(digits, n, carry) ==
    IF Len(digits) = 0 THEN DigitsOf(carry)
    ELSE MulDigits(SubSeq(digits, 1, Len(digits) - 1), n,
                   (digits[Len(digits)] * n + carry) \div 10)
            \o <<(digits[Len(digits)] * n + carry) % 10>>

\* Decimal.__mul__ by Decimal(n)
Product(dec, n) ==
    Rounded([digits |-> MulDigits(dec.digits, n, 0), exp |-> dec.exp], FALSE, Prec)

\* zeros put before a coefficient so that it has more than n digits
Padded(digits, n) ==
    IF Len(digits) > n THEN digits
    ELSE [i \in 1..(n + 1 - Len(digits)) |-> 0] \o digits

\* Decimal.quantize(Decimal("0.1")): the number of tenths of the result,
\* whose exponent is -1
Quantize(dec) ==
    IF dec.exp >= 0 - 1 THEN ToInt(dec.digits) * Pow10(dec.exp + 1)
    ELSE ToInt(Rounded([digits |-> Padded(dec.digits, 0 - 1 - dec.exp),
                        exp |-> dec.exp],
                       FALSE,
                       Len(Padded(dec.digits, 0 - 1 - dec.exp)) + 1 + dec.exp).digits)

\* mutant of calculate_dso: only a negative revenue is "not applicable", a
\* revenue of zero is divided by (decimal.DivisionByZero)
calculate_dso_NegativeOnly(ar_balance, revenue, days_in_period) ==
    IF revenue < 0 THEN [ok |-> TRUE, val |-> None]
    ELSE IF revenue = 0 THEN [ok |-> FALSE, val |-> None]
    ELSE [ok |-> TRUE,
          val |-> Some([tenths |-> Quantize(Product(Quotient(ar_balance, revenue),
                                                    days_in_period)),
                        exp |-> 0 - 1])]

\* calculate_dso: whether it returns, and the Optional[Decimal] returned
calculate_dso(ar_balance, revenue, days_in_period) ==
    IF revenue <= 0 THEN [ok |-> TRUE, val |-> None]
    ELSE [ok |-> TRUE,
          val |-> Some([tenths |-> Quantize(Product(Quotient(ar_balance, revenue),
                                                    days_in_period)),
                        exp |-> 0 - 1])]

---------------------------------------------------------------------------
(* api/reports.py: get_days_in_period, with calendar.isleap and            *)
(* calendar.monthrange of the standard library                             *)

\* calendar.isleap
isleap(year) == year % 4 = 0 /\ (year % 100 # 0 \/ year % 400 = 0)

\* calendar.mdays[1:]
mdays == <<31, 28, 31, 30, 31, 30, 31, 31, 30, 31, 30, 31>>

\* calendar.monthrange(year, month)[1]; IllegalMonthError for a month
\* outside 1..12
monthrange(year, month) ==
    IF month \notin 1..12 THEN [ok |-> FALSE, val |-> "IllegalMonthError"]
    ELSE [ok |-> TRUE,
          val |-> mdays[month] + (IF month = 2 /\ isleap(year) THEN 1 ELSE 0)]

\* mutant of QuarterMonth: the quarter taken to start at the month given
QuarterMonth_Identity(month) == month

\* quarter_month = ((month - 1) // 3) * 3 + 1
QuarterMonth(month) == ((month - 1) \div 3) * 3 + 1

\* sum(calendar.monthrange(year, quarter_month + i)[1] for i in range(3))
QuarterDays(year, quarter_month) ==
    IF \E i \in 0..2 : ~monthrange(year, quarter_month + i).ok
    THEN [ok |-> FALSE, val |-> "IllegalMonthError"]
    ELSE [ok |-> TRUE,
          val |-> monthrange(year, quarter_month).val
                    + monthrange(year, quarter_month + 1).val
                    + monthrange(year, quarter_month + 2).val]

\* mutant of get_days_in_period: an unknown resolution taken as monthly
get_days_in_period_DefaultsToMonth(year, month, resolution) ==
    IF resolution = "q" THEN QuarterDays(year, QuarterMonth(month))
    ELSE IF resolution = "y"
    THEN [ok |-> TRUE, val |-> IF isleap(year) THEN 366 ELSE 365]
    ELSE monthrange(year, month)

\* get_days_in_period: whether it returns, and the number of days or the
\* exception raised
get_days_in_period(year, month, resolution) ==
    IF resolution = "m" THEN monthrange(year, month)
    ELSE IF resolution = "q" THEN QuarterDays(year, QuarterMonth(month))
    ELSE IF resolution = "y"
    THEN [ok |-> TRUE, val |-> IF isleap(year) THEN 366 ELSE 365]
    ELSE [ok |-> FALSE, val |-> "ValueError"]

---------------------------------------------------------------------------
(* cli.py: reports_revenue with --json. A period of the profit-and-loss     *)
(* report is the year and month of its start date and its total amount.     *)

EpProfitAndLoss == <<"reports/profit_and_loss", 0>>
EpArAging == <<"reports/accounts_aging", 0>>

\* RESOLUTION_MAP[resolution]
RESOLUTION_MAP(resolution) ==
    CASE resolution = "monthly" -> "m"
      [] resolution = "quarterly" -> "q"
      [] resolution = "yearly" -> "y"

\* ReportsAPI.get_profit_and_loss: the income periods of the report
get_profit_and_loss(s, down) ==
    Bind(ensure_account_info(s, down), LAMBDA a :
    Bind(client_get(a.s, EpProfitAndLoss, down), LAMBDA r :
    Ret(r.s, remote.income)))

\* ReportsAPI.get_ar_aging: ar_report.totals.total.amount
get_ar_aging(s, down) ==
    Bind(ensure_account_info(s, down), LAMBDA a :
    Bind(client_get(a.s, EpArAging, down), LAMBDA r :
    Ret(r.s, remote.ar_balance)))

\* "float(dso) if dso else None": a Decimal is truthy when it is not zero;
\* the float nearest a one-decimal value prints as that value
FloatOrNoneDso(dso) ==
    IF Len(dso) = 1 /\ dso[1].tenths # 0 THEN dso ELSE None

\* periods_output.append({...}) (cli.py 1205-1210) on the dso of the period
PeriodOutput(period, dso) ==
    [start |-> <<period.year, period.month>>,
     revenue |-> period.amount,
     dso |-> FloatOrNoneDso(dso.val)]

\* cli.py 1201-1203 on the days of the period
PeriodWithDays(ar_balance, period, days) ==
    PeriodOutput(period, calculate_dso(ar_balance, period.amount, days.val))

\* sum(p.total.amount for p in pl_report.income)
RECURSIVE SumAmounts(_)
SumAmounts(income) ==
    IF Len(income) = 0 THEN 0 ELSE Head(income).amount + SumAmounts(Tail(income))

\* the JSON branch (cli.py 1197-1219) on the two reports
RevenueOutput(s, income, ar_balance, api_resolution) ==
    Ret(s, [periods |->
                [i \in 1..Len(income) |->
                    PeriodWithDays(ar_balance, income[i],
                                   get_days_in_period(income[i].year,
                                                      income[i].month,
                                                      api_resolution))],
            total_revenue |-> SumAmounts(income),
            ar_balance |-> ar_balance])

\* reports_revenue with --json (cli.py 1167-1219)
reports_revenue(s, resolution, down) ==
    Bind(get_profit_and_loss(s, down), LAMBDA pl :
    Bind(get_ar_aging(pl.s, down), LAMBDA ar :
    RevenueOutput(ar.s, pl.val, ar.val, RESOLUTION_MAP(resolution))))

---------------------------------------------------------------------------
(* api/client.py and auth.py: a request of FreshBooksClient in full. The    *)
(* client state s holds config.tokens, the tokens saved on disk, the number *)
(* of tokens the service has issued and, in reqs, the HTTP exchanges of the *)
(* call: requests of the API and refreshes.                                 *)

\* an HTTP response, with its Retry-After header if any
Response(status, retry_after) ==
    [exc |-> "", status |-> status, retry_after |-> retry_after]
\* an httpx exception raised instead of a response
TransportFailure(exc) == [exc |-> exc, status |-> 0, retry_after |-> None]

\* raise AuthenticationError(...), NetworkError(...), APIResponseError(...)
Fail(s, type) ==
    [s |-> s, ok |-> FALSE, val |-> [type |-> type, retry_after |-> None]]

\* Tokens(...) built from the token response: the n-th tokens issued
Tokens(n) == [access_token |-> n, refresh_token |-> TRUE, is_expired |-> FALSE]

\* mutant of handle_response: a 429 raised without its Retry-After value
handle_response_NoRetryAfter(s, response) ==
    IF response.status \in 200..299 THEN Ret(s, response)
    ELSE IF response.status = 401 THEN Fail(s, "AuthenticationError")
    ELSE IF response.status = 429 THEN Fail(s, "RateLimitError")
    ELSE Fail(s, "APIResponseError")

\* FreshBooksClient._handle_response
handle_response(s, response) ==
    IF response.status \in 200..299 THEN Ret(s, response)
    ELSE IF response.status = 401 THEN Fail(s, "AuthenticationError")
    ELSE IF response.status = 429
    THEN [s |-> s, ok |-> FALSE,
          val |-> [type |-> "RateLimitError",
                   retry_after |-> response.retry_after]]
    ELSE Fail(s, "APIResponseError")

\* auth.py 138-149 on the state s after the POST to the token URL
TokenResponse(s) ==
    IF remote.refresh.exc = "TimeoutException" THEN Fail(s, "NetworkError")
    ELSE IF remote.refresh.exc # "" THEN Fail(s, "NetworkError")
    ELSE IF remote.refresh.status \notin 200..299
    THEN Fail(s, "AuthenticationError")
    ELSE Ret([s EXCEPT !.issued = @ + 1], Tokens(s.issued + 1))

\* auth.py refresh_access_token
refresh_access_token(s) ==
    IF IsNone(s.tokens) \/ ~Val(s.tokens).refresh_token
    THEN Fail(s, "AuthenticationError")
    ELSE TokenResponse([s EXCEPT !.reqs =
                            Append(@, [kind |-> "refresh",
                                       outcome |-> remote.refresh])])

\* config.py save_tokens
save_tokens(s, tokens) == [s EXCEPT !.saved = Some(tokens)]

\* auth.py ensure_valid_token: the tokens refreshed for an expired token are
\* saved and returned, config.tokens is left as it is
ensure_valid_token(s) ==
    IF IsNone(s.tokens) THEN Fail(s, "AuthenticationError")
    ELSE IF Val(s.tokens).is_expired
    THEN Bind(refresh_access_token(s),
              LAMBDA r : Ret(save_tokens(r.s, r.val), r.val))
    ELSE Ret(s, Val(s.tokens))

\* the requests of the API sent so far in this call
Attempts(reqs) == Cardinality({i \in 1..Len(reqs) : reqs[i].kind # "refresh"})

\* what the service answers to the next request of this call
NextResponse(s) ==
    IF Attempts(s.reqs) < Len(remote.responses)
    THEN remote.responses[Attempts(s.reqs) + 1]
    ELSE remote.responses[Len(remote.responses)]

\* client.py 66-76 on the outcome of self.client.get / self.client.post
Sent(s, outcome) ==
    IF outcome.exc = "TimeoutException" THEN Fail(s, "NetworkError")
    ELSE IF outcome.exc = "ConnectError" THEN Fail(s, "NetworkError")
    ELSE IF outcome.exc # "" THEN Fail(s, "NetworkError")
    ELSE Ret(s, outcome)

\* FreshBooksClient._make_request: the headers are built first
make_request(s, method) ==
    Bind(ensure_valid_token(s), LAMBDA h :
    Sent([h.s EXCEPT !.reqs = Append(@, [kind |-> method,
                                        outcome |-> NextResponse(h.s)])],
         NextResponse(h.s)))

\* "response = self._make_request(...); return self._handle_response(response)"
Attempt(s, method) ==
    Bind(make_request(s, method), LAMBDA r : handle_response(r.s, r.val))

\* mutant of Retry: the refreshed tokens are saved but not put in
\* config.tokens
Retry_TokensNotStored(s, method) ==
    Bind(refresh_access_token(s), LAMBDA r :
    Attempt(save_tokens(r.s, r.val), method))

\* the except branch of get and post (client.py 83-89, 96-102)
Retry(s, method) ==
    Bind(refresh_access_token(s), LAMBDA r :
    Attempt([save_tokens(r.s, r.val) EXCEPT !.tokens = Some(r.val)], method))

\* mutant of Attempted: every failure of the first attempt is retried
Attempted_RetriesAll(first, method) ==
    IF first.ok THEN first ELSE Retry(first.s, method)

\* "except AuthenticationError:" on the outcome of the first attempt
Attempted(first, method) ==
    IF first.ok THEN first
    ELSE IF first.val.type # "AuthenticationError" THEN first
    ELSE Retry(first.s, method)

\* FreshBooksClient.get
FreshBooksClient_get(s) == Attempted(Attempt(s, "GET"), "GET")

\* FreshBooksClient.post
FreshBooksClient_post(s) == Attempted(Attempt(s, "POST"), "POST")

---------------------------------------------------------------------------
(* api/time_entries.py: TimeEntriesAPI.list and list_all. A record of the   *)
(* service is its id and whether TimeEntry(...) can be built from it.       *)

EpTimeEntries(page) == <<"time_entries", page>>

\* the records of page `page` of the service, PerPage to a page; a page
\* past the last one is empty
PageOf(page) ==
    SubSeq(remote.records,
           (page - 1) * PerPage + 1,
           IF page * PerPage < Len(remote.records) THEN page * PerPage
           ELSE Len(remote.records))

\* the loop of list (time_entries.py 89-111): a record that raises KeyError
\* or ValueError is skipped
Parsed(entries_data) ==
    [i \in 1..Len(SelectSeq(entries_data, LAMBDA e : e.parses)) |->
        SelectSeq(entries_data, LAMBDA e : e.parses)[i].id]

\* response.get("meta", {}).get("total", len(entries_data))
MetaTotal(entries_data) ==
    IF IsNone(remote.total) THEN Len(entries_data) ELSE Val(remote.total)

\* TimeEntriesAPI.list: (entries, total) of one page
TimeEntriesAPI_list(s, page, down) ==
    Bind(ensure_account_info(s, down), LAMBDA a :
    Bind(client_get(a.s, EpTimeEntries(page), down), LAMBDA r :
    Ret(r.s, [entries |-> Parsed(PageOf(page)),
              total |-> MetaTotal(PageOf(page))])))

\* the while loop of list_all (time_entries.py 135-156) from page `page`
\* on, and one iteration of it on the outcome r of self.list
RECURSIVE ListAllLoop(_, _, _, _)
RECURSIVE ListAllPage(_, _, _, _)
ListAllPage(r, all_entries, page, down) ==
    IF ~r.ok THEN Raise(r.s)
    ELSE IF Len(all_entries \o r.val.entries) >= r.val.total
            \/ Len(r.val.entries) = 0
    THEN Ret(r.s, all_entries \o r.val.entries)
    ELSE ListAllLoop(r.s, all_entries \o r.val.entries, page + 1, down)
ListAllLoop(s, all_entries, page, down) ==
    ListAllPage(TimeEntriesAPI_list(s, page, down), all_entries, page, down)

\* TimeEntriesAPI.list_all
TimeEntriesAPI_list_all(s, down) == ListAllLoop(s, <<>>, 1, down)

---------------------------------------------------------------------------
(* The objects of one run *)

\* FreshBooksClient.__init__, TeamAPI.__init__, RatesAPI.__init__: every
\* cache empty; `account` tells whether account.json held the two ids
NewApi(account) ==
    [account |-> account,
     team_cache |-> None,
     staff_cache |-> None,
     project_members_cache |-> None,
     services_cache |-> None,
     service_rates_cache |-> EmptyDict,
     team_member_rates_cache |-> None,
     reqs |-> <<>>]

NoCall == [op |-> "init", args |-> <<>>, ok |-> TRUE, val |-> None, reqs |-> <<>>,
           failed |-> {}, dropped |-> {}]

\* the endpoints a run can address
ServiceIds == DOMAIN remote.service_rate
ProjectIds == {remote.projects[i].id : i \in 1..Len(remote.projects)} \ {0}
Endpoints ==
    {EpMe, EpTeam, EpStaff, EpProjects, EpServices, EpTeamRates}
        \cup {EpProject(p) : p \in ProjectIds}
        \cup {EpServiceRate(sv) : sv \in ServiceIds}
\* the endpoints a call made in state s can send a request to: those whose
\* answer is not cached (a populated cache stays populated during a call)
UncachedIn(s) ==
    (IF s.account THEN {} ELSE {EpMe})
        \cup (IF IsNone(s.team_cache) THEN {EpTeam} ELSE {})
        \cup (IF IsNone(s.staff_cache) THEN {EpStaff} ELSE {})
        \cup (IF IsNone(s.project_members_cache)
              THEN {EpProjects} \cup {EpProject(p) : p \in ProjectIds} ELSE {})
        \cup (IF IsNone(s.services_cache) THEN {EpServices} ELSE {})
        \cup (IF IsNone(s.team_member_rates_cache) THEN {EpTeamRates} ELSE {})
        \cup {EpServiceRate(sv) : sv \in ServiceIds \ DOMAIN s.service_rates_cache}
Uncached == UncachedIn(api)
\* the endpoints each API reaches
DirectoryEndpoints ==
    {EpMe, EpTeam, EpStaff, EpProjects} \cup {EpProject(p) : p \in ProjectIds}
RatesEndpoints ==
    {EpServices, EpTeamRates} \cup {EpServiceRate(sv) : sv \in ServiceIds}
\* the sets of endpoints that may fail during a call reaching `eps`
FaultSetsIn(s, eps) ==
    {d \in SUBSET (eps \cap Endpoints \cap UncachedIn(s)) : Cardinality(d) <= faults}
FaultSets(eps) == FaultSetsIn(api, eps)
\* how many of the requests sent failed
Failed(reqs, down) == Cardinality({i \in 1..Len(reqs) : reqs[i] \in down})

\* identities and service arguments the calls of the model are made with:
\* those of the time entries the service holds
Ids == remote.entry_ids
ServiceArgs == {None} \cup {Some(sv) : sv \in ServiceIds}

\* what a later call can see of a call: all but the requests it sent
Outcome(c) ==
    [op |-> c.op, args |-> c.args, ok |-> c.ok, val |-> c.val, dropped |-> c.dropped]

\* one call of a method: r is its result from the state `api`, `failed` the
\* endpoints whose request failed, `dropped` the endpoints whose cached
\* answer it removed
Invoke(op, args, r, down, dropped) ==
    /\ api' = [r.s EXCEPT !.reqs = <<>>]
    /\ last' = [op |-> op, args |-> args, ok |-> r.ok, val |-> r.val,
                reqs |-> r.s.reqs,
                failed |-> {ep \in down : \E i \in 1..Len(r.s.reqs) : r.s.reqs[i] = ep},
                dropped |-> dropped]
    /\ prev' = Outcome(last)
    /\ faults' = faults - Failed(r.s.reqs, down)
    /\ UNCHANGED <<cfg, remote>>

\* a call of a method that reads or fills the caches
Call(op, args, r, down) == Invoke(op, args, r, down, {})

GetBillableRate ==
    \E identity_id \in Ids, service_id \in ServiceArgs :
    \E down \in FaultSets(DirectoryEndpoints \cup {EpTeamRates}
                          \cup {EpServiceRate(Val(sv)) : sv \in {service_id} \ {None}}) :
        Call("get_billable_rate", <<identity_id, service_id>>,
             get_billable_rate(api, identity_id, service_id, down), down)

GetCostRate ==
    \E identity_id \in Ids, down \in FaultSets(DirectoryEndpoints) :
        Call("get_cost_rate", <<identity_id>>,
             get_cost_rate(api, identity_id, down), down)

GetServiceRate ==
    \E service_id \in ServiceIds :
    \E down \in FaultSets({EpMe, EpServiceRate(service_id)}) :
        Call("get_service_rate", <<service_id>>,
             get_service_rate(api, service_id, down), down)

GetTeamMemberRates ==
    \E down \in FaultSets({EpMe, EpTeamRates}) :
        Call("get_team_member_rates", <<>>, get_team_member_rates(api, down), down)

GetServicesById ==
    \E down \in FaultSets({EpMe, EpServices}) :
        Call("get_services_by_id", <<>>, get_services_by_id(api, down), down)

GetTeamMemberName ==
    \E identity_id \in Ids, down \in FaultSets(DirectoryEndpoints) :
        Call("get_team_member_name", <<identity_id>>,
             get_team_member_name(api, identity_id, down), down)

GetTeamMemberEmail ==
    \E identity_id \in Ids, down \in FaultSets(DirectoryEndpoints) :
        Call("get_team_member_email", <<identity_id>>,
             get_team_member_email(api, identity_id, down), down)

FindIdentityByName ==
    \E name \in remote.fragments, down \in FaultSets(DirectoryEndpoints) :
        Call("find_identity_by_name", <<name>>,
             find_identity_by_name(api, name, down), down)

ListProjectMembers ==
    \E down \in FaultSets(DirectoryEndpoints) :
        Call("list_project_members", <<>>, list_project_members(api, down), down)

GetAllMembers ==
    \E down \in FaultSets(DirectoryEndpoints) :
        Call("get_all_members", <<>>, get_all_members(api, down), down)

TeamClearCache ==
    Invoke("TeamAPI.clear_cache", <<>>, Ret(TeamAPI_clear_cache(api), None), {},
           ({EpTeam, EpStaff, EpProjects} \cap Endpoints) \ Uncached)

\* `fb time summary --json`: a new process (client, TeamAPI, RatesAPI) that
\* has the account ids the one before stored, summarising the month's entries
TimeSummary ==
    /\ Len(remote.entries) > 0
    /\ \E down \in FaultSetsIn(NewApi(api.account), Endpoints) :
          Call("time_summary", <<remote.entries>>,
               print_time_summary_json(NewApi(api.account), remote.entries,
                                       "none", down),
               down)

\* `fb time list --json`, with --all or with the default --billable filter
\* applied by the service
TimeList ==
    \E all \in BOOLEAN :
    \E down \in FaultSetsIn(NewApi(api.account), Endpoints) :
        Call("time_list",
             << IF all THEN remote.entries
                ELSE SelectSeq(remote.entries, LAMBDA e : e.billable) >>,
             time_list_json(NewApi(api.account),
                            IF all THEN remote.entries
                            ELSE SelectSeq(remote.entries, LAMBDA e : e.billable),
                            down),
             down)

\* `fb time summary --json` with --by-teammate or --by-client
TimeSummaryGrouped ==
    /\ Len(remote.entries) > 0
    /\ \E group_by \in {"teammate", "client"} :
       \E down \in FaultSetsIn(NewApi(api.account), Endpoints) :
          Call("time_summary_grouped", <<remote.entries, group_by>>,
               print_time_summary_json(NewApi(api.account), remote.entries,
                                       group_by, down),
               down)

\* `fb time unbilled`, grouped by teammate, project or client, as JSON or as
\* text: the service lists the billable entries, none of them billed
TimeUnbilled ==
    \E group_by \in {"teammate", "project", "client"}, as_json \in BOOLEAN :
    \E down \in FaultSetsIn(NewApi(api.account), Endpoints) :
        Call("time_unbilled",
             << SelectSeq(remote.entries, LAMBDA e : e.billable), group_by,
                as_json >>,
             time_unbilled(NewApi(api.account),
                           SelectSeq(remote.entries, LAMBDA e : e.billable),
                           group_by, as_json, down),
             down)

\* calculate_dso applied to the amounts and the period length given
CalculateDso ==
    /\ "revenue" \in DOMAIN remote
    /\ Invoke("calculate_dso",
              <<remote.ar_balance, remote.revenue, remote.days_in_period>>,
              [s |-> api,
               ok |-> calculate_dso(remote.ar_balance, remote.revenue,
                                    remote.days_in_period).ok,
               val |-> calculate_dso(remote.ar_balance, remote.revenue,
                                     remote.days_in_period).val],
              {}, {})

\* get_days_in_period applied to the period start and the resolution given
GetDaysInPeriod ==
    /\ "resolution" \in DOMAIN remote
    /\ Invoke("get_days_in_period",
              <<remote.year, remote.month, remote.resolution>>,
              [s |-> api,
               ok |-> get_days_in_period(remote.year, remote.month,
                                         remote.resolution).ok,
               val |-> get_days_in_period(remote.year, remote.month,
                                          remote.resolution).val],
              {}, {})

\* client.get(url) or client.post(url)
Request ==
    /\ "responses" \in DOMAIN remote
    /\ api.issued < MaxIssued - 1
    /\ \E method \in {"GET", "POST"} :
          Call(method, <<method>>,
               IF method = "GET" THEN FreshBooksClient_get(api)
               ELSE FreshBooksClient_post(api),
               {})

\* client._handle_response(response) on the first response of the service
HandleResponse ==
    /\ "responses" \in DOMAIN remote
    /\ remote.responses[1].exc = ""
    /\ Call("_handle_response", <<remote.responses[1]>>,
            handle_response(api, remote.responses[1]), {})

\* client._make_request(method, url)
MakeRequest ==
    /\ "responses" \in DOMAIN remote
    /\ api.issued < MaxIssued
    /\ \E method \in {"GET", "POST"} :
          Call("_make_request", <<method>>, make_request(api, method), {})

\* `fb reports revenue --json`
ReportsRevenue ==
    /\ "income" \in DOMAIN remote
    /\ \E down \in {d \in SUBSET {EpProfitAndLoss, EpArAging} :
                        Cardinality(d) <= faults} :
          Call("reports_revenue", <<remote.report_resolution>>,
               reports_revenue(api, remote.report_resolution, down), down)

\* the pages a run can ask for, and the sets of them that may fail
Pages == 1..((MaxRecords \div PerPage) + 2)
PageFaults ==
    {d \in SUBSET {EpTimeEntries(p) : p \in Pages} : Cardinality(d) <= faults}

\* time_entries.list(page=page, per_page=PerPage)
TimeEntriesList ==
    /\ "records" \in DOMAIN remote
    /\ \E page \in Pages, down \in PageFaults :
          Call("list", <<page>>, TimeEntriesAPI_list(api, page, down), down)

\* time_entries.list_all()
TimeEntriesListAll ==
    /\ "records" \in DOMAIN remote
    /\ \E down \in PageFaults :
          Call("list_all", <<>>, TimeEntriesAPI_list_all(api, down), down)

RatesClearCache ==
    Invoke("RatesAPI.clear_cache", <<>>, Ret(RatesAPI_clear_cache(api), None), {},
           (RatesEndpoints \cap Endpoints) \ Uncached)

---------------------------------------------------------------------------
(* Inputs: what the service holds and what rates.yaml holds.  Identity 1   *)
(* is the one the inputs vary for; identity 2 is a second team member with *)
(* a team rate of its own.  Every source has its own positive rate:        *)
(* 11 and 12 id-keyed overrides, 20 service, 30 team, 40 staff, 50 email   *)
(* override, 60 default; 7, 8, 9 are the cost rates.                       *)

EmailA == <<"a">>
EmailB == <<"b">>
EmailS == <<"s">>
EmailP == <<"p">>

\* one entry of the team_members response (team.py 30-41)
TM(identity_id, first_name, email) ==
    [uuid |-> TRUE, identity_id |-> identity_id, first_name |-> first_name,
     middle_name |-> None, last_name |-> None, email |-> email]
\* one entry of the staffs response (team.py 107-115)
ST(id, fname, email, rate) ==
    [id |-> id, fname |-> fname, lname |-> None, email |-> email,
     display_name |-> None, rate |-> rate]
\* one member of a project group (team.py 76-85)
PM(identity_id, first_name, email) ==
    [identity_id |-> identity_id, first_name |-> first_name,
     last_name |-> None, email |-> email]

\* where identity 1 is listed: in the team directory (with or without an
\* email), in the staff directory (rate: a JSON rate field), in a project
DirScenarios ==
    {[team |-> "email",   staff |-> TRUE,  rate |-> JStr(40), proj |-> FALSE],
     [team |-> "email",   staff |-> TRUE,  rate |-> JStr(0),  proj |-> FALSE],
     [team |-> "noemail", staff |-> TRUE,  rate |-> JNum(0),  proj |-> TRUE],
     [team |-> "no",      staff |-> TRUE,  rate |-> JStr(40), proj |-> TRUE],
     [team |-> "no",      staff |-> FALSE, rate |-> None,     proj |-> TRUE],
     [team |-> "no",      staff |-> FALSE, rate |-> None,     proj |-> FALSE]}

\* the email the directories of scenario d give identity 1, if any
ScenarioEmail(d) ==
    IF d.team = "email" THEN Some(EmailA)
    ELSE IF d.team = "noemail" THEN None
    ELSE IF d.staff \/ d.proj THEN Some(EmailA)
    ELSE None

ChainRemote(d, service_rate, team_rate) ==
    [team_members |->
        (IF d.team = "no" THEN <<>>
         ELSE << TM(1, Some(<<"A">>),
                    IF d.team = "email" THEN Some(EmailA) ELSE None) >>)
        \o << TM(2, Some(<<"B">>), Some(EmailB)) >>,
     staffs |->
        IF d.staff
        THEN << ST(1, Some(<<"A">>),
                   Some(IF d.team = "no" THEN EmailA ELSE EmailS), d.rate) >>
        ELSE <<>>,
     projects |->
        IF d.proj
        THEN << [id |-> 1,
                 members |-> << PM(1, Some(<<"A">>),
                                   Some(IF d.team = "no" /\ ~d.staff
                                        THEN EmailA ELSE EmailP)) >>] >>
        ELSE <<>>,
     team_member_rates |->
        (IF IsNone(team_rate) THEN <<>>
         ELSE << [identity_id |-> 1, rate |-> team_rate] >>)
        \o << [identity_id |-> 2, rate |-> JStr(33)] >>,
     service_rate |-> [sv \in {1} |-> service_rate],
     services |-> << [id |-> 1, name |-> <<"a">>] >>,
     entry_ids |-> {1},
     fragments |-> {},
     entries |-> <<>>]

\* a dict from the (key, value) pairs kv: a set of two-element sequences
DictOf(kv) == [k \in {x[1] : x \in kv} |-> (CHOOSE x \in kv : x[1] = k)[2]]

\* the id-keyed overrides of identity 1: a members entry (absent, or with the
\* given rate, maybe None) and a rate under the key "1" (maybe None)
IdOverrides ==
    {[member |-> FALSE, rate |-> None,     keyed |-> None],
     [member |-> FALSE, rate |-> None,     keyed |-> Some(0)],
     [member |-> FALSE, rate |-> None,     keyed |-> Some(12)],
     [member |-> TRUE,  rate |-> None,     keyed |-> Some(12)],
     [member |-> TRUE,  rate |-> Some(0),  keyed |-> None],
     [member |-> TRUE,  rate |-> Some(11), keyed |-> None]}

\* rates.yaml with the billable side varying
BillableConfig(o, email_rate, default_rate) ==
    [members |-> IF o.member
                 THEN [i \in {1} |-> [billable_rate |-> o.rate, cost_rate |-> None]]
                 ELSE EmptyDict,
     billable_rates |->
        DictOf((IF IsNone(o.keyed) THEN {} ELSE {<<Str(1), Val(o.keyed)>>})
               \cup (IF IsNone(email_rate) THEN {} ELSE {<<EmailA, Val(email_rate)>>})
               \cup {<<EmailS, 55>>, <<EmailP, 56>>}),
     cost_rates |-> DictOf({<<EmailA, 8>>}),
     default_cost_rate |-> None,
     default_billable_rate |-> default_rate]

\* the first three sources vary, the later ones all hold a positive rate
InitBillableUpper ==
    \E d \in {x \in DirScenarios : x.team = "email" \/ ~x.staff},
       o \in IdOverrides,
       service_rate \in {None, JNum(0), JStr(0), JStr(20)},
       team_rate \in {None, JStr(0), JStr(30)} :
        /\ remote = ChainRemote(d, service_rate, team_rate)
        /\ cfg = BillableConfig(o, Some(50), Some(60))

\* none of the first three sources holds a positive rate, the later ones vary
InitBillableLower ==
    \E d \in DirScenarios,
       o \in {x \in IdOverrides : ~Positive(x.rate) /\ (x.member \/ ~Positive(x.keyed))},
       service_rate \in {None, JStr(0)},
       team_rate \in {None, JStr(0)},
       email_rate \in {None, Some(0), Some(50)},
       default_rate \in {None, Some(0), Some(60)} :
        /\ remote = ChainRemote(d, service_rate, team_rate)
        /\ cfg = BillableConfig(o, email_rate, default_rate)

InitBillable == InitBillableUpper \/ InitBillableLower

\* rates.yaml with the cost side varying; o.rate and o.keyed are cost rates
CostConfig(o, email_rate, default_rate) ==
    [members |-> IF o.member
                 THEN [i \in {1} |-> [billable_rate |-> None, cost_rate |-> o.rate]]
                 ELSE EmptyDict,
     billable_rates |-> DictOf({<<Str(1), 0>>, <<EmailA, 50>>}),
     cost_rates |->
        DictOf((IF IsNone(o.keyed) THEN {} ELSE {<<Str(1), Val(o.keyed)>>})
               \cup (IF IsNone(email_rate) THEN {} ELSE {<<EmailA, Val(email_rate)>>})
               \cup {<<EmailS, 5>>, <<EmailP, 6>>}),
     default_cost_rate |-> default_rate,
     default_billable_rate |-> None]

InitCost ==
    \E d \in {x \in DirScenarios : x.rate # JStr(0)}, o \in IdOverrides,
       email_rate \in {None, Some(0), Some(8)},
       default_rate \in {None, Some(0), Some(9)} :
        /\ remote = ChainRemote(d, JStr(20), JStr(30))
        /\ cfg = CostConfig(o, email_rate, default_rate)

---------------------------------------------------------------------------
(* The rate chains: billable and cost rates resolved, from a fresh process *)
(* that has its account ids, for every input above                         *)

InitChain ==
    /\ InitBillable \/ InitCost
    /\ api = NewApi(TRUE)
    /\ last = NoCall
    /\ prev = Outcome(NoCall)
    /\ faults = MaxFaults

NextChain == GetBillableRate \/ GetCostRate

SpecChain == InitChain /\ [][NextChain]_vars

---------------------------------------------------------------------------
(* The rate caches: lookups repeated and caches cleared, for two           *)
(* identities and two services, from a process with or without its account *)
(* ids                                                                     *)

\* the service of ChainRemote with a second service and both identities
\* logging time
CacheRemote(d, service_rate, team_rate) ==
    [ChainRemote(d, service_rate, team_rate) EXCEPT
        !.service_rate = [sv \in {1, 2} |-> IF sv = 1 THEN service_rate ELSE JStr(22)],
        !.services = << [id |-> 1, name |-> <<"a">>], [id |-> 2, name |-> <<"b">>] >>,
        !.entry_ids = {1, 2}]

InitCache ==
    /\ \E d \in {x \in DirScenarios : (x.team = "email" /\ x.rate = JStr(40))
                                         \/ (~x.staff /\ x.proj)},
          service_rate \in {None, JNum(0), JStr(20)},
          team_rate \in {None, JStr(30)} :
            /\ remote = CacheRemote(d, service_rate, team_rate)
            /\ cfg = BillableConfig([member |-> FALSE, rate |-> None, keyed |-> None],
                                    Some(50), Some(60))
    /\ \E account \in BOOLEAN : api = NewApi(account)
    /\ last = NoCall
    /\ prev = Outcome(NoCall)
    /\ faults = MaxFaults

NextCache ==
    \/ GetBillableRate
    \/ GetServiceRate
    \/ GetTeamMemberRates
    \/ GetServicesById
    \/ RatesClearCache

SpecCache == InitCache /\ [][NextCache]_vars

---------------------------------------------------------------------------
(* The identity resolver: names, emails, the name search and the merged    *)
(* directory, for identities 1..3 listed in none to three directories      *)

NameAl == <<"A", "l">>
NameBo == <<"B", "o">>

\* team_members responses: nobody; identity 1 alone; a member without names
\* and one without email; a member without identity_id, one without uuid and
\* identity 2 listed twice
TeamDirs ==
    { <<>>,
      << TM(1, Some(NameAl), Some(EmailA)) >>,
      << TM(1, None, Some(EmailA)), TM(2, Some(NameBo), None) >>,
      << TM(0, Some(NameBo), Some(EmailB)),
         [TM(1, Some(NameAl), Some(EmailA)) EXCEPT !.uuid = FALSE],
         TM(2, Some(NameAl), None),
         TM(2, Some(NameBo), Some(EmailB)) >> }

\* users/staffs responses
StaffDirs ==
    { <<>>,
      << ST(1, Some(NameBo), Some(EmailS), JStr(40)),
         ST(2, Some(NameAl), Some(EmailS), None) >>,
      << ST(2, None, Some(EmailS), None),
         ST(3, Some(NameAl), None, None) >> }

\* projects with their group members: none; one project with the three
\* identities; identity 3 without names in one project and with a name in
\* the next; a project without id and a member without identity_id
ProjectDirs ==
    { <<>>,
      << [id |-> 1,
          members |-> << PM(1, Some(NameBo), Some(EmailP)),
                         PM(2, Some(NameBo), Some(EmailP)),
                         PM(3, Some(NameAl), Some(EmailP)) >>] >>,
      << [id |-> 1, members |-> << PM(3, None, Some(EmailP)) >>],
         [id |-> 2, members |-> << PM(3, Some(NameAl), None),
                                   PM(2, Some(NameBo), Some(EmailP)) >>] >>,
      << [id |-> 0, members |-> << PM(1, Some(NameAl), Some(EmailP)) >>],
         [id |-> 1, members |-> << PM(0, Some(NameBo), Some(EmailP)),
                                   PM(3, None, None) >>] >> }

\* the fragments searched for
Fragments == { <<"a", "L">>, <<"B">>, <<"p">>, <<"n", "o">> }

InitTeam ==
    /\ \E team_members \in TeamDirs, staffs \in StaffDirs, projects \in ProjectDirs :
            remote = [team_members |-> team_members,
                      staffs |-> staffs,
                      projects |-> projects,
                      team_member_rates |-> <<>>,
                      service_rate |-> [sv \in {1} |-> None],
                      services |-> <<>>,
                      entry_ids |-> {1, 2, 3},
                      fragments |-> Fragments,
                      entries |-> <<>>]
    /\ cfg = BillableConfig([member |-> FALSE, rate |-> None, keyed |-> None],
                            None, None)
    /\ api = NewApi(TRUE)
    /\ last = NoCall
    /\ prev = Outcome(NoCall)
    /\ faults = MaxFaults

NextTeam ==
    \/ GetTeamMemberName
    \/ GetTeamMemberEmail
    \/ FindIdentityByName
    \/ GetAllMembers
    \/ ListProjectMembers
    \/ TeamClearCache

SpecTeam == InitTeam /\ [][NextTeam]_vars

---------------------------------------------------------------------------
(* The month summary: up to MaxEntries time entries of identities 1 and 2, *)
(* billable or not, with or without a service                              *)

\* rates.yaml with a members entry for identity 1
SummaryConfig(billable_rate, cost_rate, default_cost_rate, keyed_cost) ==
    [members |-> [i \in {1} |-> [billable_rate |-> billable_rate,
                                 cost_rate |-> cost_rate]],
     billable_rates |-> EmptyDict,
     cost_rates |-> IF IsNone(keyed_cost) THEN EmptyDict
                    ELSE DictOf({<<Str(2), Val(keyed_cost)>>}),
     default_cost_rate |-> default_cost_rate,
     default_billable_rate |-> None]

\* one time entry of the month
Entry(identity_id, service_id, billable, duration) ==
    [identity_id |-> identity_id, service_id |-> service_id,
     billable |-> billable, duration |-> duration]

\* identity 1 is listed nowhere and has the service rate 20 only; identity 2
\* is a team member with the team rate 33
EntryChoices ==
    { Entry(1, None, TRUE, 1800),
      Entry(1, Some(1), TRUE, 2700),
      Entry(1, Some(1), FALSE, 3600),
      Entry(2, None, TRUE, 4500),
      Entry(2, Some(1), FALSE, 900) }

InitSummary ==
    /\ \E n \in 1..MaxEntries :
       \E entries \in [1..n -> EntryChoices] :
            remote = [ChainRemote([team |-> "no", staff |-> FALSE, rate |-> None,
                                   proj |-> FALSE], JStr(20), None)
                        EXCEPT !.entries = entries, !.entry_ids = {1, 2}]
    /\ \E billable_rate \in {None, Some(11)},
          cost_rate \in {None, Some(7)},
          default_cost_rate \in {None, Some(9)},
          keyed_cost \in {None, Some(0)} :
            cfg = SummaryConfig(billable_rate, cost_rate, default_cost_rate,
                                keyed_cost)
    /\ api = NewApi(TRUE)
    /\ last = NoCall
    /\ prev = Outcome(NoCall)
    /\ faults = MaxFaults

NextSummary == TimeSummary

SpecSummary == InitSummary /\ [][NextSummary]_vars

---------------------------------------------------------------------------
(* `fb time list --json` over the same months and configurations *)

\* rates.yaml without a default cost rate and without a billable override
InitList ==
    /\ InitSummary
    /\ IsNone(cfg.default_cost_rate)
    /\ IsNone(cfg.members[1].billable_rate)

NextList == TimeList

SpecList == InitList /\ [][NextList]_vars

---------------------------------------------------------------------------
(* calculate_dso over a grid of balances, revenues and period lengths *)

\* the lengths of the periods of a report, and 1 and 3 days
PeriodDays == {1, 3, 28, 29, 30, 31, 90, 91, 92, 365, 366}

InitDso ==
    /\ \E ar_balance \in 0..MaxBalance, revenue \in (0 - 2)..MaxRevenue,
          days_in_period \in PeriodDays :
            remote = [ar_balance |-> ar_balance, revenue |-> revenue,
                      days_in_period |-> days_in_period]
    /\ cfg = SummaryConfig(None, None, None, None)
    /\ api = NewApi(TRUE)
    /\ last = NoCall
    /\ prev = Outcome(NoCall)
    /\ faults = MaxFaults

NextDso == CalculateDso

SpecDso == InitDso /\ [][NextDso]_vars

---------------------------------------------------------------------------
(* The revenue report: one or two periods, the first with any revenue of    *)
(* the grid, starting in a leap year in a month of 29 to 31 days            *)

InitRevenue ==
    /\ \E ar_balance \in 0..MaxBalance, revenue \in (0 - 2)..MaxRevenue,
          year \in {2024}, month \in {1, 2, 4},
          resolution \in {"monthly", "quarterly", "yearly"},
          more \in BOOLEAN :
            remote = [ar_balance |-> ar_balance,
                      income |-> <<[year |-> year, month |-> month,
                                    amount |-> revenue]>>
                                 \o (IF more
                                     THEN <<[year |-> year + 1, month |-> month,
                                             amount |-> 10]>>
                                     ELSE <<>>),
                      report_resolution |-> resolution]
    /\ cfg = SummaryConfig(None, None, None, None)
    /\ api = NewApi(TRUE)
    /\ last = NoCall
    /\ prev = Outcome(NoCall)
    /\ faults = MaxFaults

NextRevenue == ReportsRevenue

SpecRevenue == InitRevenue /\ [][NextRevenue]_vars

---------------------------------------------------------------------------
(* get_days_in_period over years of every leap-year kind, the twelve months *)
(* and resolution codes known and unknown                                   *)

Years == {1900, 2000, 2023, 2024, 2026, 2100}
Resolutions == {"m", "q", "y", "M", "w", "monthly", ""}

InitDays ==
    /\ \E year \in Years, month \in 1..12, resolution \in Resolutions :
            remote = [year |-> year, month |-> month, resolution |-> resolution]
    /\ cfg = SummaryConfig(None, None, None, None)
    /\ api = NewApi(TRUE)
    /\ last = NoCall
    /\ prev = Outcome(NoCall)
    /\ faults = MaxFaults

NextDays == GetDaysInPeriod

SpecDays == InitDays /\ [][NextDays]_vars

---------------------------------------------------------------------------
(* The client against a service whose answers to the first and the second   *)
(* request of a call, and to a token refresh, are fixed                     *)

RetryAfter == <<"6", "0">>
\* what a request can meet
Outcomes ==
    {Response(200, None), Response(401, None), Response(429, None),
     Response(429, Some(RetryAfter)), Response(500, None), Response(404, None),
     TransportFailure("TimeoutException"), TransportFailure("ConnectError"),
     TransportFailure("ReadError")}
\* what a token refresh can meet
RefreshOutcomes ==
    {Response(200, None), Response(401, None), Response(500, None),
     TransportFailure("TimeoutException"), TransportFailure("ConnectError")}
\* config.tokens when the client is built
StoredTokens ==
    {None} \cup {Some([access_token |-> 1, refresh_token |-> rt, is_expired |-> ex]) :
                    rt \in BOOLEAN, ex \in BOOLEAN}

\* FreshBooksClient.__init__ with the loaded config
NewClient(tokens) ==
    [tokens |-> tokens, saved |-> tokens, issued |-> 1, reqs |-> <<>>]

InitClient ==
    /\ \E first \in Outcomes, second \in Outcomes, refresh \in RefreshOutcomes :
            remote = [responses |-> <<first, second>>, refresh |-> refresh]
    /\ \E tokens \in StoredTokens : api = NewClient(tokens)
    /\ cfg = SummaryConfig(None, None, None, None)
    /\ last = NoCall
    /\ prev = Outcome(NoCall)
    /\ faults = MaxFaults

NextClient == Request \/ HandleResponse \/ MakeRequest

SpecClient == InitClient /\ [][NextClient]_vars

---------------------------------------------------------------------------
(* The time entries of the service, up to MaxRecords of them, each          *)
(* parseable or not, with or without the total reported in "meta"           *)

InitEntries ==
    /\ \E n \in 0..MaxRecords :
       \E parses \in [1..n -> BOOLEAN], reported \in BOOLEAN :
            remote = [records |-> [i \in 1..n |-> [id |-> i, parses |-> parses[i]]],
                      total |-> IF reported THEN Some(n) ELSE None]
    /\ api = NewApi(TRUE)
    /\ cfg = SummaryConfig(None, None, None, None)
    /\ last = NoCall
    /\ prev = Outcome(NoCall)
    /\ faults = MaxFaults

NextEntries == TimeEntriesList \/ TimeEntriesListAll

SpecEntries == InitEntries /\ [][NextEntries]_vars

---------------------------------------------------------------------------
(* Grouped reports: `fb time summary --json --by-...` and `fb time unbilled` *)

\* months in which identity 1 worked on no service, with rates.yaml holding
\* the billable override of identity 1 and no cost rates
InitGroups ==
    /\ InitSummary
    /\ \A i \in 1..Len(remote.entries) :
            remote.entries[i].identity_id = 1 => IsNone(remote.entries[i].service_id)
    /\ ~IsNone(cfg.members[1].billable_rate)
    /\ IsNone(cfg.default_cost_rate)
    /\ IsNone(cfg.members[1].cost_rate)
    /\ cfg.cost_rates = EmptyDict

NextGroups == TimeSummaryGrouped \/ TimeUnbilled

SpecGroups == InitGroups /\ [][NextGroups]_vars

---------------------------------------------------------------------------
(* The grouped month summary with cost rates: rates.yaml without cost      *)
(* rates keyed by id string                                                *)

InitGroupTotals ==
    /\ InitSummary
    /\ cfg.cost_rates = EmptyDict

NextGroupTotals == TimeSummaryGrouped

SpecGroupTotals == InitGroupTotals /\ [][NextGroupTotals]_vars

---------------------------------------------------------------------------
(* What each rate source yields for the last call, taken one source at a   *)
(* time from the state after the call: a source the call consulted yields  *)
(* what it cached, a source it did not reach yields what the service holds *)

\* an identity's id-keyed override record: its members entry when rates.yaml
\* has one, else the rate under the key str(identity_id)
IdKeyedBillable(identity_id) ==
    IF identity_id \in DOMAIN cfg.members
    THEN cfg.members[identity_id].billable_rate
    ELSE IF Str(identity_id) \in DOMAIN cfg.billable_rates
    THEN Some(cfg.billable_rates[Str(identity_id)])
    ELSE None
IdKeyedCost(identity_id) ==
    IF identity_id \in DOMAIN cfg.members
    THEN cfg.members[identity_id].cost_rate
    ELSE IF Str(identity_id) \in DOMAIN cfg.cost_rates
    THEN Some(cfg.cost_rates[Str(identity_id)])
    ELSE None

ServiceSource(service_id) ==
    IF ServiceGiven(service_id)
    THEN get_service_rate(api, Val(service_id), {}).val
    ELSE None
TeamRateSource(identity_id) ==
    get_team_member_billable_rate(api, identity_id, {}).val
StaffSource(identity_id) == get_staff_rate(api, identity_id, {}).val
ResolvedEmail(identity_id) == get_team_member_email(api, identity_id, {}).val
EmailKeyedBillable(identity_id) ==
    LET email == ResolvedEmail(identity_id) IN
    IF TruthyStr(email) /\ Val(email) \in DOMAIN cfg.billable_rates
    THEN Some(cfg.billable_rates[Val(email)])
    ELSE None
EmailKeyedCost(identity_id) ==
    LET email == ResolvedEmail(identity_id) IN
    IF TruthyStr(email) /\ Val(email) \in DOMAIN cfg.cost_rates
    THEN Some(cfg.cost_rates[Val(email)])
    ELSE None

\* the first rate of a sequence of sources that is strictly positive, else
\* `otherwise`
RECURSIVE FirstPositive(_, _)
FirstPositive(sources, otherwise) ==
    IF Len(sources) = 0 THEN otherwise
    ELSE IF Len(Head(sources)) = 1 /\ Head(sources)[1] > 0 THEN Head(sources)
    ELSE FirstPositive(Tail(sources), otherwise)

LastIs(op) == last.op = op
Returned(op) == last.op = op /\ last.ok

\* C1: a get_billable_rate(identity_id, service_id) call that returns,
\* returns the first strictly positive rate among, in this order, the
\* id-keyed override, the service rate (when a service_id is given), the
\* team-member rate, the staff rate and the override keyed by the resolved
\* email, and the global default (maybe None) when none is positive.
C1_BillableChain ==
    Returned("get_billable_rate") =>
        last.val = FirstPositive(<<IdKeyedBillable(last.args[1]),
                                   ServiceSource(last.args[2]),
                                   TeamRateSource(last.args[1]),
                                   StaffSource(last.args[1]),
                                   EmailKeyedBillable(last.args[1])>>,
                                 cfg.default_billable_rate)

\* C1 witness: an id-keyed override of 11 was returned for a call with a
\* service_id although the service rate (20), the team rate (30), the staff
\* rate (40), the email override (50) and the default (60) are all there.
C1_Witness ==
    /\ Returned("get_billable_rate")
    /\ last.val = Some(11)
    /\ ServiceGiven(last.args[2])
    /\ ServiceSource(last.args[2]) = Some(20)
    /\ TeamRateSource(last.args[1]) = Some(30)
    /\ StaffSource(last.args[1]) = Some(40)
    /\ EmailKeyedBillable(last.args[1]) = Some(50)
    /\ cfg.default_billable_rate = Some(60)

\* C2 (as claimed): a get_cost_rate(identity_id) call that returns, returns
\* the id-keyed cost override if there is one, else the cost override keyed
\* by the resolved email if there is one, else the global default cost rate.
C2_CostChainClaim ==
    Returned("get_cost_rate") =>
        last.val = IF ~IsNone(IdKeyedCost(last.args[1]))
                   THEN IdKeyedCost(last.args[1])
                   ELSE IF ~IsNone(EmailKeyedCost(last.args[1]))
                   THEN EmailKeyedCost(last.args[1])
                   ELSE cfg.default_cost_rate

\* C3: a zero id-keyed override is skipped by get_billable_rate (the call
\* returns what the later sources give) and returned as 0 by get_cost_rate,
\* which then sends no request and does not look at the email override or
\* the default.
C3_ZeroAsymmetry ==
    /\ (Returned("get_billable_rate") /\ IdKeyedBillable(last.args[1]) = Some(0)) =>
            last.val = FirstPositive(<<ServiceSource(last.args[2]),
                                       TeamRateSource(last.args[1]),
                                       StaffSource(last.args[1]),
                                       EmailKeyedBillable(last.args[1])>>,
                                     cfg.default_billable_rate)
    /\ (LastIs("get_cost_rate") /\ IdKeyedCost(last.args[1]) = Some(0)) =>
            last.ok /\ last.val = Some(0) /\ last.reqs = <<>>

\* C3 witness: with both id-keyed overrides of an identity 0, a billable
\* call returned a positive rate of a later source and the cost call after it
\* returned 0, although an email cost override (8) and a default (9) exist.
C3_Witness ==
    /\ Returned("get_cost_rate")
    /\ IdKeyedCost(last.args[1]) = Some(0)
    /\ last.val = Some(0)
    /\ EmailKeyedCost(last.args[1]) = Some(8)
    /\ cfg.default_cost_rate = Some(9)
    /\ prev.op = "get_billable_rate"
    /\ prev.ok
    /\ prev.args[1] = last.args[1]
    /\ IdKeyedBillable(last.args[1]) = Some(0)
    /\ Positive(prev.val)

\* C4 (as claimed): get_billable_rate and get_cost_rate never raise, whatever
\* upstream request failed.
C4_NeverRaisesClaim ==
    (LastIs("get_billable_rate") \/ LastIs("get_cost_rate")) => last.ok


\* C5: a get_billable_rate call made right after a get_billable_rate call
\* with the same (identity_id, service_id) that returned, returns the same
\* rate and sends no request.
C5_Idempotent ==
    (/\ LastIs("get_billable_rate")
     /\ prev.op = "get_billable_rate"
     /\ prev.args = last.args
     /\ prev.ok)
        => (last.ok /\ last.val = prev.val /\ last.reqs = <<>>)

\* C5 witness: the repeated call with a service_id returned the rate of the
\* first without a request, in a run where the team-member-rate fetch had
\* failed and the directories were consulted.
C5_Witness ==
    /\ Returned("get_billable_rate")
    /\ prev.op = "get_billable_rate"
    /\ prev.args = last.args
    /\ prev.ok
    /\ ServiceGiven(last.args[2])
    /\ last.val = prev.val
    /\ Positive(last.val)
    /\ last.reqs = <<>>
    /\ api.team_member_rates_cache = Some(EmptyDict)
    /\ ~IsNone(api.staff_cache)

\* the requests of the last call
Requested == {last.reqs[i] : i \in 1..Len(last.reqs)}
\* the last call sent a request to ep, unless it raised on loading the
\* account ids
Fetched(ep) == ep \in Requested \/ (~last.ok /\ last.reqs = <<EpMe>>)

\* C6: right after RatesAPI.clear_cache the services, per-service-rate and
\* team-member-rate caches are unpopulated, and the get_service_rate,
\* get_team_member_rates or get_services_by_id call that follows it sends the
\* request for its value again.
C6_ClearCache ==
    /\ LastIs("RatesAPI.clear_cache") =>
            /\ IsNone(api.services_cache)
            /\ api.service_rates_cache = EmptyDict
            /\ IsNone(api.team_member_rates_cache)
    /\ (prev.op = "RatesAPI.clear_cache" /\ LastIs("get_service_rate")) =>
            Fetched(EpServiceRate(last.args[1]))
    /\ (prev.op = "RatesAPI.clear_cache" /\ LastIs("get_team_member_rates")) =>
            Fetched(EpTeamRates)
    /\ (prev.op = "RatesAPI.clear_cache" /\ LastIs("get_services_by_id")) =>
            Fetched(EpServices)

\* C6 witness: a get_service_rate call right after a clear_cache that dropped
\* all three kinds of cached answers, that service's rate among them, sent
\* the request for the rate again and returned it.
C6_Witness ==
    /\ prev.op = "RatesAPI.clear_cache"
    /\ {EpServices, EpTeamRates} \subseteq prev.dropped
    /\ Returned("get_service_rate")
    /\ EpServiceRate(last.args[1]) \in prev.dropped
    /\ EpServiceRate(last.args[1]) \in Requested
    /\ Positive(last.val)


---------------------------------------------------------------------------
(* The directories as the service holds them, for the identity claims *)

\* the entries of the team-member directory that carry an identity
TeamListed(identity_id) ==
    {i \in 1..Len(remote.team_members) :
        /\ remote.team_members[i].uuid
        /\ remote.team_members[i].identity_id = identity_id
        /\ identity_id # 0}
StaffListed(identity_id) ==
    {i \in 1..Len(remote.staffs) : remote.staffs[i].id = identity_id}
InTeam(identity_id) == TeamListed(identity_id) # {}
InStaff(identity_id) == StaffListed(identity_id) # {}
\* an identity listed twice is indexed under its last entry
Last(S) == CHOOSE i \in S : \A j \in S : j <= i
TeamRecord(identity_id) == remote.team_members[Last(TeamListed(identity_id))]
StaffRecord(identity_id) == remote.staffs[Last(StaffListed(identity_id))]
\* the project-group membership snapshot the process holds
Snapshot == IF IsNone(api.project_members_cache) THEN <<>>
            ELSE Val(api.project_members_cache)
InSnapshot(identity_id) == DictHas(Snapshot, identity_id)

\* C7: a get_team_member_name / get_team_member_email call that returns gives
\* the name / email of the identity's record in the first of team-member
\* directory, staff directory, project-group snapshot that lists it; for an
\* identity listed nowhere the name is "Unknown (<identity_id>)" and the email
\* is None.
C7_ResolutionOrder ==
    /\ Returned("get_team_member_name") =>
          LET identity_id == last.args[1] IN
          last.val =
            IF InTeam(identity_id)
            THEN TeamMember_display_name(TeamRecord(identity_id))
            ELSE IF InStaff(identity_id)
            THEN Staff_name(StaffRecord(identity_id))
            ELSE IF InSnapshot(identity_id)
            THEN ProjectMemberName(DictGet(Snapshot, identity_id), identity_id)
            ELSE UnknownName(identity_id)
    /\ Returned("get_team_member_email") =>
          LET identity_id == last.args[1] IN
          last.val =
            IF InTeam(identity_id) THEN TeamRecord(identity_id).email
            ELSE IF InStaff(identity_id) THEN StaffRecord(identity_id).email
            ELSE IF InSnapshot(identity_id)
            THEN DictGet(Snapshot, identity_id).email
            ELSE None

\* C7 witness: an identity listed with email a in the team-member directory
\* and with email s in the staff directory resolved to a, right after an
\* identity listed nowhere resolved to "Unknown (3)".
C7_Witness ==
    /\ Returned("get_team_member_email")
    /\ InTeam(last.args[1]) /\ InStaff(last.args[1])
    /\ TeamRecord(last.args[1]).email = Some(EmailA)
    /\ StaffRecord(last.args[1]).email = Some(EmailS)
    /\ last.val = Some(EmailA)
    /\ prev.op = "get_team_member_name"
    /\ prev.ok
    /\ prev.args = <<3>>
    /\ prev.val = UnknownText \o <<" ", "(", "3", ")">>

\* the record get_all_members is to hold for a listed identity
MergedRecord(identity_id) ==
    IF InTeam(identity_id)
    THEN [first_name |-> TeamRecord(identity_id).first_name,
          last_name |-> TeamRecord(identity_id).last_name,
          email |-> TeamRecord(identity_id).email,
          source |-> "team_members"]
    ELSE IF InStaff(identity_id)
    THEN [first_name |-> StaffRecord(identity_id).fname,
          last_name |-> StaffRecord(identity_id).lname,
          email |-> StaffRecord(identity_id).email,
          source |-> "staff"]
    ELSE [first_name |-> DictGet(Snapshot, identity_id).first_name,
          last_name |-> DictGet(Snapshot, identity_id).last_name,
          email |-> DictGet(Snapshot, identity_id).email,
          source |-> "project_members"]
Listed ==
    {remote.team_members[i].identity_id :
        i \in {j \in 1..Len(remote.team_members) :
                  /\ remote.team_members[j].uuid
                  /\ remote.team_members[j].identity_id # 0}}
        \cup {remote.staffs[i].id : i \in 1..Len(remote.staffs)}
        \cup DictKeys(Snapshot)

\* C8: a get_all_members call that returns gives exactly one record for each
\* identity listed in the team-member directory, the staff directory or the
\* project-group snapshot, and the record's data and source tag are those of
\* the team-member directory if it lists the identity, else of the staff
\* directory if it does, else of the snapshot.
C8_AllMembers ==
    Returned("get_all_members") =>
        /\ DictKeys(last.val) = Listed
        /\ Len(last.val) = Cardinality(Listed)
        /\ \A i \in Listed : DictGet(last.val, i) = MergedRecord(i)

\* C8 witness: identity 1 listed in all three directories, 2 in the staff
\* directory and a project, 3 in a project only: three records, tagged
\* team_members, staff and project_members.
C8_Witness ==
    /\ Returned("get_all_members")
    /\ InTeam(1) /\ InStaff(1) /\ InSnapshot(1)
    /\ ~InTeam(2) /\ InStaff(2) /\ InSnapshot(2)
    /\ ~InTeam(3) /\ ~InStaff(3) /\ InSnapshot(3)
    /\ Len(last.val) = 3
    /\ DictGet(last.val, 1).source = "team_members"
    /\ DictGet(last.val, 2).source = "staff"
    /\ DictGet(last.val, 3).source = "project_members"

\* the name of a project-group member: first and last name, as far as the
\* member has them
FirstAndLast(m) == Strip(OrEmpty(m.first_name) \o <<Space>> \o OrEmpty(m.last_name))
\* case-insensitive "contains"
ContainsFold(text, fragment) == Contains(Lower(text), Lower(fragment))
NamedInTeam(m, fragment) == ContainsFold(TeamMember_display_name(m), fragment)
NamedInStaff(st, fragment) == ContainsFold(Staff_name(st), fragment)
NamedInProjects(m, fragment) ==
    \/ ContainsFold(FirstAndLast(m), fragment)
    \/ TruthyStr(m.email) /\ ContainsFold(Val(m.email), fragment)
\* the indexed directories the process holds
TeamIndex == IF IsNone(api.team_cache) THEN <<>> ELSE Val(api.team_cache)
StaffIndex == IF IsNone(api.staff_cache) THEN <<>> ELSE Val(api.staff_cache)

\* C9 (as claimed): a find_identity_by_name(fragment) call that returns gives
\* the first team member whose display name contains the fragment, case
\* ignored; if there is none the first staff member whose name does; if there
\* is none the first project-group member whose first+last name or email does;
\* and None if there is none.
C9_FirstMatchClaim ==
    Returned("find_identity_by_name") =>
        LET fragment == last.args[1]
            ht == FirstKey(TeamIndex, LAMBDA v : NamedInTeam(v, fragment))
            hs == FirstKey(StaffIndex, LAMBDA v : NamedInStaff(v, fragment))
            hp == FirstKey(Snapshot, LAMBDA v : NamedInProjects(v, fragment))
        IN  last.val = IF ~IsNone(ht) THEN ht
                       ELSE IF ~IsNone(hs) THEN hs
                       ELSE hp


---------------------------------------------------------------------------
(* The totals of the month summary, recomputed entry by entry *)

\* the rates an entry resolves to in the process that printed the summary
BillableRateOf(entry) ==
    get_billable_rate(api, entry.identity_id, entry.service_id, {}).val
CostRateOf(entry) == get_cost_rate(api, entry.identity_id, {}).val
\* hours x rate, nothing for an absent rate
Amount(entry, rate) == IF IsNone(rate) THEN 0 ELSE TimeEntry_hours(entry) * Val(rate)
\* what an entry is to contribute to the two totals
BillableShare(entry) ==
    IF entry.billable THEN Amount(entry, BillableRateOf(entry)) ELSE 0
CostShare(entry) == Amount(entry, CostRateOf(entry))
RECURSIVE SumBillable(_)
SumBillable(entries) ==
    IF Len(entries) = 0 THEN 0
    ELSE BillableShare(Head(entries)) + SumBillable(Tail(entries))
RECURSIVE SumCost(_)
SumCost(entries) ==
    IF Len(entries) = 0 THEN 0
    ELSE CostShare(Head(entries)) + SumCost(Tail(entries))

\* C10: in the totals of a summary that is printed, every billable entry
\* counts hours x its billable rate towards total_billable and every
\* non-billable entry counts 0; every entry, billable or not, counts hours x
\* its cost rate towards total_cost; an entry whose rate is absent counts
\* nothing towards that total.
C10_Aggregation ==
    Returned("time_summary") =>
        /\ last.val.total_billable = SumBillable(last.args[1])
        /\ last.val.total_cost = SumCost(last.args[1])

\* C10 witness: a summary over a non-billable entry whose billable rate and
\* cost rate both resolve and a billable entry with no billable rate: the
\* billable total is 0, the cost total holds the cost of both.
C10_Witness ==
    /\ Returned("time_summary")
    /\ Len(last.args[1]) = 2
    /\ ~last.args[1][1].billable
    /\ Positive(BillableRateOf(last.args[1][1]))
    /\ Positive(CostRateOf(last.args[1][1]))
    /\ last.args[1][2].billable
    /\ IsNone(BillableRateOf(last.args[1][2]))
    /\ last.val.total_billable = 0
    /\ last.val.total_cost = CostShare(last.args[1][1]) + CostShare(last.args[1][2])
    /\ last.val.total_cost > CostShare(last.args[1][2])

\* C11: a time summary that sends no failing request is printed (no division
\* error is raised), and in what it prints profit = total billable - total
\* cost, margin = profit / total billable x 100 when the total billable is
\* nonzero, and margin is exactly 0 when the total billable is 0, whatever
\* the cost.
C11_ProfitMargin ==
    [][last'.op = "time_summary" =>
        IF last'.ok
        THEN /\ last'.val.profit = last'.val.total_billable - last'.val.total_cost
             /\ last'.val.margin.den # 0
             /\ last'.val.total_billable # 0 =>
                    last'.val.margin.num * last'.val.total_billable
                        = last'.val.profit * 100 * last'.val.margin.den
             /\ last'.val.total_billable = 0 =>
                    last'.val.margin.num = 0
        ELSE faults' < faults]_vars

\* C11 witness: a summary printed with nothing billable and a positive cost:
\* the profit is negative and the margin 0.
C11_Witness ==
    /\ Returned("time_summary")
    /\ last.val.total_billable = 0
    /\ last.val.total_cost > 0
    /\ last.val.profit = 0 - last.val.total_cost
    /\ last.val.margin = Ratio(0, 1)

\* C12: in the `time list` JSON output, every entry is reported with the
\* cost rate that resolves for it, a rate of exactly 0 as 0 and null only
\* when none resolves, and with the cost amount hours x rate (0 for a rate
\* of 0); a billable entry likewise with its billable rate and amount.
C12_ZeroRateClaim ==
    Returned("time_list") =>
        \A i \in 1..Len(last.args[1]) :
            /\ last.val.entries[i].cost_rate = CostRateOf(last.args[1][i])
            /\ last.val.entries[i].cost_amount
                    = IF IsNone(CostRateOf(last.args[1][i])) THEN None
                      ELSE Some(CostShare(last.args[1][i]))
            /\ last.args[1][i].billable =>
                /\ last.val.entries[i].billable_rate
                        = BillableRateOf(last.args[1][i])
                /\ last.val.entries[i].billable_amount
                        = IF IsNone(BillableRateOf(last.args[1][i])) THEN None
                          ELSE Some(BillableShare(last.args[1][i]))

\* the keys of the groups of an output, in the order they are presented
GroupKeys(groups) == [i \in 1..Len(groups) |-> groups[i].k]
\* strictly ascending in the order of str
Ascending(keys) ==
    \A i \in 1..(Len(keys) - 1) : StrLess(keys[i], keys[i + 1])

\* C13: every grouped output that is printed (time summary as JSON by
\* teammate or client, time unbilled as JSON or text by teammate, project or
\* client) presents its groups in ascending order of the group key.
C13_GroupOrderClaim ==
    (last.op \in {"time_summary_grouped", "time_unbilled"} /\ last.ok) =>
        Ascending(GroupKeys(last.val.groups))

\* the arguments and the result of the last calculate_dso call
DsoCalled == last.op = "calculate_dso"
DsoBalance == last.args[1]
DsoRevenue == last.args[2]
DsoDays == last.args[3]
\* |x|
Abs(x) == IF x < 0 THEN 0 - x ELSE x
\* twice the distance, in units of 1/(10 x revenue), between a result of
\* `tenths` tenths and the exact quotient ar_balance x days / revenue
TwiceError(tenths) == 2 * Abs(tenths * DsoRevenue - 10 * DsoBalance * DsoDays)

\* C14: for revenue > 0, calculate_dso returns (ar_balance / revenue) x
\* days_in_period rounded half-up to one decimal place: the number of
\* tenths is floor(10 x value + 1/2), so that a value of exactly 3.05
\* gives 3.1.
C14_HalfUpClaim ==
    (DsoCalled /\ DsoRevenue > 0) =>
        /\ last.ok
        /\ ~IsNone(last.val)
        /\ Val(last.val).tenths
                = (20 * DsoBalance * DsoDays + DsoRevenue) \div (2 * DsoRevenue)

\* C15: for every revenue <= 0, with any balance and any period length,
\* calculate_dso returns None and does not raise.
C15_NoRevenue ==
    (DsoCalled /\ DsoRevenue <= 0) => (last.ok /\ IsNone(last.val))

\* C15 witness: a positive balance over a negative revenue gave None.
C15_Witness ==
    /\ DsoCalled
    /\ DsoRevenue < 0
    /\ DsoBalance > 0
    /\ last.ok
    /\ IsNone(last.val)

\* C16: for every revenue > 0, calculate_dso returns a value with exactly
\* one decimal place that is at most 0.05 away from the exact quotient
\* ar_balance x days_in_period / revenue.
C16_OneDecimal ==
    (DsoCalled /\ DsoRevenue > 0) =>
        /\ last.ok
        /\ ~IsNone(last.val)
        /\ Val(last.val).exp = 0 - 1
        /\ TwiceError(Val(last.val).tenths) <= DsoRevenue

\* C16 witness: a quotient that is not a whole number of tenths was
\* rounded, to a value less than 0.05 away from it.
C16_Witness ==
    /\ DsoCalled
    /\ DsoRevenue > 0
    /\ last.ok
    /\ ~IsNone(last.val)
    /\ TwiceError(Val(last.val).tenths) > 0
    /\ TwiceError(Val(last.val).tenths) < DsoRevenue

\* the arguments of the last get_days_in_period call
DaysCalled == last.op = "get_days_in_period"
DaysYear == last.args[1]
DaysMonth == last.args[2]
DaysResolution == last.args[3]
\* leap years of the Gregorian calendar
LeapYear(year) ==
    IF year % 400 = 0 THEN TRUE
    ELSE IF year % 100 = 0 THEN FALSE
    ELSE year % 4 = 0
\* the days of a month: February apart, the months up to July are long when
\* odd and those from August on when even
DaysOfMonth(year, month) ==
    IF month = 2 THEN (IF LeapYear(year) THEN 29 ELSE 28)
    ELSE IF (month <= 7) = (month % 2 = 1) THEN 31
    ELSE 30
\* the first month of the quarter a month lies in
QuarterStart(month) ==
    CHOOSE q \in {1, 4, 7, 10} : month \in q..(q + 2)

\* C17: for the months 1..12 of every year, get_days_in_period returns for
\* "m" the days of the month (29 for February of a leap year, else 28), for
\* "q" the days of the three months of the quarter the month lies in, and
\* for "y" 366 in a leap year and 365 otherwise.
C17_DaysInPeriod ==
    (DaysCalled /\ DaysResolution \in {"m", "q", "y"}) =>
        /\ last.ok
        /\ DaysResolution = "m" => last.val = DaysOfMonth(DaysYear, DaysMonth)
        /\ DaysResolution = "q" =>
                last.val = DaysOfMonth(DaysYear, QuarterStart(DaysMonth))
                            + DaysOfMonth(DaysYear, QuarterStart(DaysMonth) + 1)
                            + DaysOfMonth(DaysYear, QuarterStart(DaysMonth) + 2)
        /\ DaysResolution = "y" => last.val = (IF LeapYear(DaysYear) THEN 366 ELSE 365)

\* C17 witness: the quarter of March of a leap year has 91 days.
C17_Witness ==
    /\ DaysCalled
    /\ DaysResolution = "q"
    /\ DaysMonth = 3
    /\ LeapYear(DaysYear)
    /\ last.ok
    /\ last.val = 91

\* C18: get_days_in_period raises for every resolution code other than
\* "m", "q" and "y", whatever the year and the month; it returns no number.
C18_UnknownResolution ==
    (DaysCalled /\ DaysResolution \notin {"m", "q", "y"}) =>
        (~last.ok /\ last.val = "ValueError")

\* C18 witness: the upper-case code "M" raised.
C18_Witness ==
    /\ DaysCalled
    /\ DaysResolution = "M"
    /\ ~last.ok

\* the typed failure a request that met `outcome` is to raise
ExpectedFailure(outcome) ==
    IF outcome.exc # "" THEN [type |-> "NetworkError", retry_after |-> None]
    ELSE IF outcome.status = 401
    THEN [type |-> "AuthenticationError", retry_after |-> None]
    ELSE IF outcome.status = 429
    THEN [type |-> "RateLimitError", retry_after |-> outcome.retry_after]
    ELSE [type |-> "APIResponseError", retry_after |-> None]
\* whether a request that met `outcome` failed
FailedRequest(outcome) == outcome.exc # "" \/ outcome.status \notin 200..299
\* the last HTTP exchange of the last call was a request of the API
EndedOnRequest ==
    Len(last.reqs) > 0 /\ last.reqs[Len(last.reqs)].kind # "refresh"
LastOutcome == last.reqs[Len(last.reqs)].outcome
ClientCalled == last.op \in {"GET", "POST"}

\* C19: every failed request is mapped to one typed failure: by
\* _handle_response, 401 to AuthenticationError, 429 to RateLimitError with
\* the Retry-After value, any other error status to APIResponseError; by
\* _make_request, a timeout or connect failure to NetworkError; and a get
\* or post that ends on a failed request raises the failure of that request.
C19_TypedFailures ==
    /\ last.op = "_handle_response" =>
            IF FailedRequest(last.args[1])
            THEN ~last.ok /\ last.val = ExpectedFailure(last.args[1])
            ELSE last.ok
    /\ (last.op \in {"_make_request", "GET", "POST"} /\ EndedOnRequest) =>
            IF FailedRequest(LastOutcome) /\ (ClientCalled \/ LastOutcome.exc # "")
            THEN ~last.ok /\ last.val = ExpectedFailure(LastOutcome)
            ELSE last.ok

\* C19 witness: a get whose request was answered 429 with Retry-After: 60
\* raised RateLimitError carrying "60".
C19_Witness ==
    /\ last.op = "GET"
    /\ EndedOnRequest
    /\ LastOutcome = Response(429, Some(RetryAfter))
    /\ ~last.ok
    /\ last.val = [type |-> "RateLimitError", retry_after |-> Some(RetryAfter)]

\* the position in the log of the first request of the API
FirstRequest ==
    CHOOSE i \in 1..Len(last.reqs) :
        /\ last.reqs[i].kind # "refresh"
        /\ \A j \in 1..(i - 1) : last.reqs[j].kind = "refresh"
\* the last get or post had its first request answered 401
Got401 ==
    /\ ClientCalled
    /\ Attempts(last.reqs) > 0
    /\ last.reqs[FirstRequest].outcome.status = 401
\* the refreshes sent after that request
RefreshesAfter401 ==
    {j \in (FirstRequest + 1)..Len(last.reqs) : last.reqs[j].kind = "refresh"}
RefreshSucceeded ==
    \E j \in RefreshesAfter401 : ~FailedRequest(last.reqs[j].outcome)
RefreshUnreachable ==
    \E j \in RefreshesAfter401 : last.reqs[j].outcome.exc # ""
\* the new tokens are in config.tokens and on disk
NewTokensStored ==
    /\ api.tokens = Some(Tokens(api.issued))
    /\ api.saved = api.tokens

\* C20 as stated: after a 401 the client refreshes at most once and sends
\* at most two requests; when the refresh succeeds the new tokens are in
\* config.tokens and the request is sent once more, a second 401 raising
\* AuthenticationError; when the refresh fails AuthenticationError is raised
\* and the request is not sent again.
C20_RefreshOnceClaim ==
    Got401 =>
        /\ Cardinality(RefreshesAfter401) <= 1
        /\ Attempts(last.reqs) <= 2
        /\ \A i \in 1..Len(last.reqs) : last.reqs[i].kind \in {"refresh", last.op}
        /\ IF RefreshSucceeded
           THEN /\ Attempts(last.reqs) = 2
                /\ NewTokensStored
                /\ LastOutcome.status = 401 =>
                        (~last.ok /\ last.val.type = "AuthenticationError")
           ELSE /\ Attempts(last.reqs) = 1
                /\ ~last.ok
                /\ last.val.type = "AuthenticationError"

\* C20 amended: as above, but a refresh that fails by a timeout or a
\* connect failure raises NetworkError; a refresh that is refused, or that
\* cannot be asked for lack of a refresh token, raises AuthenticationError.
C20_RefreshOnce ==
    Got401 =>
        /\ Cardinality(RefreshesAfter401) <= 1
        /\ Attempts(last.reqs) <= 2
        /\ \A i \in 1..Len(last.reqs) : last.reqs[i].kind \in {"refresh", last.op}
        /\ IF RefreshSucceeded
           THEN /\ Attempts(last.reqs) = 2
                /\ NewTokensStored
                /\ LastOutcome.status = 401 =>
                        (~last.ok /\ last.val.type = "AuthenticationError")
           ELSE /\ Attempts(last.reqs) = 1
                /\ ~last.ok
                /\ last.val.type = IF RefreshUnreachable THEN "NetworkError"
                                   ELSE "AuthenticationError"

\* C20 witness: a get answered 401, a refresh that succeeded, and the
\* request sent again and answered 200, with the new tokens stored.
C20_Witness ==
    /\ Got401
    /\ last.op = "GET"
    /\ RefreshSucceeded
    /\ Attempts(last.reqs) = 2
    /\ NewTokensStored
    /\ last.ok

\* the commands that aggregate hours and money
Aggregated ==
    /\ last.op \in {"time_summary", "time_summary_grouped", "time_list",
                    "time_unbilled"}
    /\ last.ok

\* C21: in every aggregation command that prints, every running total of
\* hours or of money is held as a Decimal (or as the int 0 nothing was added
\* to), never as a float: float conversion is applied to finished totals.
C21_DecimalOnlyClaim ==
    Aggregated => \A h \in last.val.held : h.type \in {"int", "Decimal"}

\* the team-member-rate fetch of the last call failed
TeamRatesFailed == EpTeamRates \in last.failed
\* the empty mapping is cached
EmptyRatesCached(s) == s.team_member_rates_cache = Some(EmptyDict)

\* what holds right after a call whose team-member-rate fetch failed
C22_Swallowed ==
    /\ (LastIs("get_team_member_rates") /\ TeamRatesFailed) =>
            /\ last.ok
            /\ last.val = EmptyDict
            /\ EmptyRatesCached(api)
    /\ (LastIs("get_billable_rate") /\ TeamRatesFailed) =>
            /\ EmptyRatesCached(api)
            /\ last.ok =>
                    last.val = FirstPositive(<<StaffSource(last.args[1]),
                                               EmailKeyedBillable(last.args[1])>>,
                                             cfg.default_billable_rate)
            /\ ~last.ok => last.failed # {EpTeamRates}

\* a call made while the empty mapping is cached, other than clear_cache,
\* leaves it cached and sends no team-member-rate request
C22_NotRefetched ==
    (EmptyRatesCached(api) /\ last'.op # "RatesAPI.clear_cache") =>
        /\ EmptyRatesCached(api')
        /\ \A i \in 1..Len(last'.reqs) : last'.reqs[i] # EpTeamRates
        /\ last'.op = "get_team_member_rates" => (last'.ok /\ last'.val = EmptyDict)

\* C22: when the team-member-rate fetch fails, get_team_member_rates
\* returns {} and does not raise, get_billable_rate goes on to the staff
\* rate, the email override and the default, and {} stays cached, no
\* team-member-rate request being sent again, until clear_cache().
C22_FailedFetchCached == []C22_Swallowed /\ [][C22_NotRefetched]_vars

\* C22 witness: a get_billable_rate call whose team-member-rate fetch failed
\* returned the staff rate 40, and {} is cached.
C22_Witness ==
    /\ Returned("get_billable_rate")
    /\ TeamRatesFailed
    /\ last.val = Some(40)
    /\ StaffSource(last.args[1]) = Some(40)
    /\ EmptyRatesCached(api)

\* a get_service_rate call that returns has cached what it returns
C23_Cached ==
    Returned("get_service_rate") =>
        /\ last.args[1] \in DOMAIN api.service_rates_cache
        /\ api.service_rates_cache[last.args[1]] = last.val

\* a get_service_rate call for a cached service returns the cached value
\* without a request; only clear_cache removes or changes a cached value
C23_Served ==
    /\ (last'.op = "get_service_rate"
            /\ last'.args[1] \in DOMAIN api.service_rates_cache) =>
            /\ last'.ok
            /\ last'.val = api.service_rates_cache[last'.args[1]]
            /\ last'.reqs = <<>>
    /\ last'.op # "RatesAPI.clear_cache" =>
            \A sv \in DOMAIN api.service_rates_cache :
                /\ sv \in DOMAIN api'.service_rates_cache
                /\ api'.service_rates_cache[sv] = api.service_rates_cache[sv]

\* C23: once get_service_rate(s) has returned, absent or a rate, every
\* later get_service_rate(s) returns the same without a request until
\* clear_cache() is called.
C23_NegativeCaching == []C23_Cached /\ [][C23_Served]_vars

\* C23 witness: for a service whose endpoint reports the rate 0,
\* get_service_rate returned absent twice in a row, the second time without
\* a request.
C23_Witness ==
    /\ Returned("get_service_rate")
    /\ remote.service_rate[last.args[1]] = JNum(0)
    /\ last.val = None
    /\ last.reqs = <<>>
    /\ prev.op = "get_service_rate"
    /\ prev.args = last.args
    /\ prev.ok
    /\ prev.val = None

\* the listed projects that have an id, by position in the project list
WithId == {i \in 1..Len(remote.projects) : remote.projects[i].id # 0}
\* those whose detail request did not fail in the last call
Contributing ==
    {i \in WithId : EpProject(remote.projects[i].id) \notin last.failed}
\* where the contributing projects list an identity: (project, member)
ListedAt(identity_id) ==
    {p \in UNION {{<<i, j>> : j \in 1..Len(remote.projects[i].members)} :
                      i \in Contributing} :
        remote.projects[p[1]].members[p[2]].identity_id = identity_id}
FirstListedAt(identity_id) ==
    CHOOSE p \in ListedAt(identity_id) :
        \A q \in ListedAt(identity_id) :
            p[1] < q[1] \/ (p[1] = q[1] /\ p[2] <= q[2])
MemberData(p) ==
    [first_name |-> remote.projects[p[1]].members[p[2]].first_name,
     last_name |-> remote.projects[p[1]].members[p[2]].last_name,
     email |-> remote.projects[p[1]].members[p[2]].email]
\* the identities the contributing projects list
GroupMembers ==
    {remote.projects[p[1]].members[p[2]].identity_id :
        p \in UNION {{<<i, j>> : j \in 1..Len(remote.projects[i].members)} :
                        i \in Contributing}} \ {0}
\* the detail requests of the listed projects, in list order
RECURSIVE DetailRequests(_)
DetailRequests(projects) ==
    IF Len(projects) = 0 THEN <<>>
    ELSE (IF Head(projects).id # 0 THEN <<EpProject(Head(projects).id)>> ELSE <<>>)
            \o DetailRequests(Tail(projects))
\* the last call built the snapshot: it got the project list
SnapshotBuilt ==
    /\ LastIs("list_project_members")
    /\ last.reqs # <<>>
    /\ EpProjects \notin last.failed

\* C24: a list_project_members call that gets the project list sends one
\* list request and one detail request per listed project, does not raise
\* when detail requests fail, and returns and caches a snapshot holding
\* exactly the identities listed by the projects whose detail request
\* succeeded, each with the data of the first such project that lists it.
C24_PartialSnapshot ==
    SnapshotBuilt =>
        /\ last.ok
        /\ last.reqs = <<EpProjects>> \o DetailRequests(remote.projects)
        /\ DictKeys(last.val) = GroupMembers
        /\ Len(last.val) = Cardinality(GroupMembers)
        /\ \A i \in GroupMembers :
                DictGet(last.val, i) = MemberData(FirstListedAt(i))
        /\ api.project_members_cache = Some(last.val)

\* C24 witness: of two projects the detail request of the first failed; the
\* snapshot holds the two members of the second, identity 3 with the name
\* the second project gives it.
C24_Witness ==
    /\ SnapshotBuilt
    /\ Cardinality(WithId) = 2
    /\ Cardinality(Contributing) = 1
    /\ 2 \in Contributing
    /\ last.ok
    /\ DictKeys(last.val) = {2, 3}
    /\ DictGet(last.val, 3).first_name = Some(NameAl)

\* the first request of the last get or post failed otherwise than by a 401
FailedNot401 ==
    /\ ClientCalled
    /\ Attempts(last.reqs) > 0
    /\ FailedRequest(last.reqs[FirstRequest].outcome)
    /\ last.reqs[FirstRequest].outcome.status # 401

\* C25: a get or post whose request ends in 429, in another error status
\* than 401, in a connect failure or in a timeout raises the typed failure
\* of that request after this one request: the request is not sent again
\* and no token refresh follows it.
C25_NoRetry ==
    FailedNot401 =>
        /\ ~last.ok
        /\ last.val = ExpectedFailure(last.reqs[FirstRequest].outcome)
        /\ Attempts(last.reqs) = 1
        /\ FirstRequest = Len(last.reqs)

\* C25 witness: a get that timed out raised NetworkError after one request,
\* although a second request and a token refresh would have succeeded.
C25_Witness ==
    /\ FailedNot401
    /\ last.op = "GET"
    /\ last.reqs = <<[kind |-> "GET",
                      outcome |-> TransportFailure("TimeoutException")]>>
    /\ remote.responses[2] = Response(200, None)
    /\ remote.refresh = Response(200, None)
    /\ ~last.ok
    /\ last.val.type = "NetworkError"

\* a token refresh has succeeded in this run
Refreshed == api.issued > 1
\* the tokens last issued are the client's current tokens
C26_Current == Refreshed => api.tokens = Some(Tokens(api.issued))
\* a request made after a refresh succeeded sends a refresh only after a
\* request of its own was answered 401
C26_NoFurther ==
    (Refreshed /\ last'.op \in {"GET", "POST", "_make_request"}) =>
        \A i \in 1..Len(last'.reqs) :
            last'.reqs[i].kind = "refresh" =>
                \E j \in 1..(i - 1) :
                    /\ last'.reqs[j].kind # "refresh"
                    /\ last'.reqs[j].outcome.status = 401

\* C26: once a token refresh has succeeded in a run, the refreshed tokens
\* are the client's current tokens, and no later request of the run is
\* preceded by another refresh (the refreshed token is not expired).
C26_RefreshedOnceClaim == []C26_Current /\ [][C26_NoFurther]_vars

\* the ids of the records of the service that parse, in server order
Parseable == Parsed(remote.records)
\* the pages 1..n
FirstPages(n) == [p \in 1..n |-> EpTimeEntries(p)]

\* C27: a list_all call that returns, against a service that reports the
\* total, has requested the pages 1, 2, ... in turn and returns every
\* parseable record of the service exactly once, in server order, also
\* when all the records of some page fail to parse.
C27_AllPagesClaim ==
    (Returned("list_all") /\ ~IsNone(remote.total)) =>
        /\ last.reqs = FirstPages(Len(last.reqs))
        /\ last.val = Parseable

\* the sum of one number of the groups of an output
RECURSIVE SumOverGroups(_, _)
SumOverGroups(groups, field) ==
    IF Len(groups) = 0 THEN 0
    ELSE Head(groups).v[field] + SumOverGroups(Tail(groups), field)

DsoOfPeriod(i) ==
    calculate_dso(remote.ar_balance, remote.income[i].amount,
                  get_days_in_period(remote.income[i].year, remote.income[i].month,
                                     RESOLUTION_MAP(last.args[1])).val).val

\* C29: in the revenue report printed as JSON, the dso of a period is null
\* exactly when calculate_dso returns None for it (revenue <= 0), and is
\* the value calculate_dso returns otherwise, 0.0 included.
C29_DsoNullClaim ==
    Returned("reports_revenue") =>
        \A i \in 1..Len(last.val.periods) :
            /\ IsNone(last.val.periods[i].dso) <=> remote.income[i].amount <= 0
            /\ last.val.periods[i].dso = DsoOfPeriod(i)

\* the call made in this step sent a request to ep, unless it raised on
\* loading the account ids
FetchedNow(ep) ==
    \/ \E i \in 1..Len(last'.reqs) : last'.reqs[i] = ep
    \/ ~last'.ok /\ last'.reqs = <<EpMe>>
\* the call made in this step sent no request to ep
NotFetchedNow(ep) == \A i \in 1..Len(last'.reqs) : last'.reqs[i] # ep

\* RatesAPI.clear_cache leaves the three caches of TeamAPI as they are
C30_Frame ==
    last'.op = "RatesAPI.clear_cache" =>
        /\ api'.team_cache = api.team_cache
        /\ api'.staff_cache = api.staff_cache
        /\ api'.project_members_cache = api.project_members_cache

\* a get_billable_rate call right after RatesAPI.clear_cache: the rate
\* sources it reaches are fetched again, the cached directories are not
C30_After ==
    (last.op = "RatesAPI.clear_cache" /\ last'.op = "get_billable_rate") =>
        /\ ~IsNone(api.team_cache) => NotFetchedNow(EpTeam)
        /\ ~IsNone(api.staff_cache) => NotFetchedNow(EpStaff)
        /\ ~IsNone(api.project_members_cache) =>
                \A i \in 1..Len(last'.reqs) : last'.reqs[i][1] # "projects"
        /\ ServiceGiven(last'.args[2]) =>
                FetchedNow(EpServiceRate(Val(last'.args[2])))
        /\ (ServiceGiven(last'.args[2]) => ~Positive(last'.val)) =>
                FetchedNow(EpTeamRates)

\* C30: RatesAPI.clear_cache() does not touch the team-member directory,
\* the staff directory or the project-member snapshot; the
\* get_billable_rate call after it requests the service rate and the
\* team-member rates again when it reaches them and sends no request for a
\* directory that is cached.
C30_DirectoriesKept == [][C30_Frame /\ C30_After]_vars

\* C30 witness: right after a clear_cache that dropped the team-member
\* rates, get_billable_rate requested them again and returned the staff
\* rate 40 from the cached staff directory, with no other request.
C30_Witness ==
    /\ prev.op = "RatesAPI.clear_cache"
    /\ EpTeamRates \in prev.dropped
    /\ Returned("get_billable_rate")
    /\ last.reqs = <<EpTeamRates>>
    /\ last.val = Some(40)
    /\ StaffSource(last.args[1]) = Some(40)
    /\ ~IsNone(api.staff_cache)
    /\ ~IsNone(api.team_cache)

===========================================================================
